---- MODULE Spec2Model ----
(***************************************************************************)
(* Model of the OpenAlex bulk harvesters of sr4all.                        *)
(*                                                                         *)
(*  SpecFetch : src/retrieval/1_oax_fetch_studies.py, the sequential       *)
(*              cursor walk of fetch_openalex_full with shard files, a     *)
(*              checkpoint file, process kills, operator aborts and        *)
(*              restarts.                                                  *)
(*  SpecExec  : src/oax/excute_oax_queries.py, the asyncio pipeline of     *)
(*              main / process_query / get_year_shards /                   *)
(*              fetch_shard_worker / file_writer.                          *)
(*  SpecScout : get_year_shards of the same script as a function of one   *)
(*              aggregate response.                                        *)
(*  SpecRequest : one logical request, run by                              *)
(*              _request_openalex_with_retries or by fetch_json, against   *)
(*              arbitrary answers of the server and the network.           *)
(*  SpecDedup : _deduplicate and _normalize_title as a function of one     *)
(*              list of records.                                           *)
(*  SpecDoi   : src/retrieval/3_oax_fetch_benchmark_studies.py, the batch  *)
(*              loop of main with its output file, its checkpoint file,    *)
(*              process kills and restarts.                                *)
(*  SpecExecFair : SpecExec with a fair event loop, for termination.       *)
(*                                                                         *)
(* Numeric program constants are scaled down where the state space would   *)
(* otherwise be too large; the ratio SHARD_SIZE / PER_PAGE stays an        *)
(* integer as in the source (10000 / 200), and the retry and backoff       *)
(* constants of _request_openalex_with_retries keep their source values    *)
(* except MAX_RATE_LIMIT_RETRIES.                                          *)
(***************************************************************************)
EXTENDS Integers, Sequences, FiniteSets, TLC

(***************************************************************************)
(* Program constants of 1_oax_fetch_studies.py (scaled).                   *)
(***************************************************************************)
\* PER_PAGE = 200 in the source: the largest page the server returns.
PER_PAGE == 2
\* SHARD_SIZE = 10_000 in the source.
SHARD_SIZE == 4
\* Python's None for max_results and for a missing next_cursor.
NoLimit == -1
NoCursor == -1
\* MAX_RESULTS = None in the source.
MAX_RESULTS == NoLimit
\* cursor = "*", the initial sentinel cursor.
Star == 0

(***************************************************************************)
(* Program constants of excute_oax_queries.py (scaled); PER_PAGE = 200 is  *)
(* the same in both scripts.                                               *)
(***************************************************************************)
\* MAX_CONCURRENT_REQUESTS = 15 in the source.
MAX_CONCURRENT_REQUESTS == 2
\* MAX_RETRIES = 5 in the source.
MAX_RETRIES == 1
\* SHARDING_THRESHOLD = 2000 in the source.
SHARDING_THRESHOLD == 2
\* asyncio.Queue(maxsize=10000) in the source.
QUEUE_MAXSIZE == 3

(***************************************************************************)
(* Bounds of the model.                                                    *)
(***************************************************************************)
\* number of queries handed to main
NumQueries == 2
\* largest number of facet groups in a group_by response
MaxGroups == 2
\* non-empty pages the server holds for all partitions of all queries
\* together; once they are served every further page is empty
MaxServed == 2
\* retryable outcomes (429, 5xx, network errors) the server and the network
\* produce during one run of main
MaxFaults == 2
\* largest number of non-empty pages the server holds for the query
MaxPages == 5
\* largest number of process starts of 1_oax_fetch_studies.py and of
\* 3_oax_fetch_benchmark_studies.py
MaxRuns == 3

(***************************************************************************)
(* Sequence helpers.                                                       *)
(***************************************************************************)
RECURSIVE SumSeq(_)
SumSeq(s) == IF s = <<>> THEN 0 ELSE Head(s) + SumSeq(Tail(s))

RECURSIVE Flatten(_)
Flatten(ss) == IF ss = <<>> THEN <<>> ELSE Head(ss) \o Flatten(Tail(ss))

Range(s) == {s[i] : i \in DOMAIN s}

NoDup(s) == \A i, j \in DOMAIN s : i # j => s[i] # s[j]

MaxOf(S) == CHOOSE m \in S : \A x \in S : x <= m

\* the elements of a finite set of integers in increasing order
RECURSIVE Sorted(_)
Sorted(S) == IF S = {} THEN <<>>
             ELSE LET m == CHOOSE x \in S : \A y \in S : x <= y
                  IN <<m>> \o Sorted(S \ {m})

\* works[skip_now:]
DropFirst(s, n) == SubSeq(s, n + 1, Len(s))

\* works[:n]
TakeFirst(s, n) == SubSeq(s, 1, n)

Min(a, b) == IF a <= b THEN a ELSE b
Max(a, b) == IF a >= b THEN a ELSE b

VARIABLES
  \* ---- the server (unchanged during the harvest) ----
  pages,              \* the non-empty result pages, records numbered 1..N
  last_has_token,     \* the last non-empty page carries a next_cursor
  \* ---- durable state of 1_oax_fetch_studies.py ----
  shard_files,        \* shard index -> [ok, recs]; ok = FALSE: torn JSON
  checkpoint_file,    \* [state, next_cursor, saved_count, next_shard_idx]
  final_file,         \* [state, recs]: <prefix>.json
  \* ---- the running process (lost when the process dies) ----
  pc,
  cursor, total_count, pulled, shard_paths, shard_idx,
  remaining_to_skip, buffer, next_cursor,
  \* ---- observations ----
  runs,               \* process starts so far
  resume_mode,        \* how the current run started: fresh, cursor, replay
  clears,             \* calls of _clear_checkpoint in the current run
  wrote_this_run,     \* shard indexes written by the current run
  skipped,            \* records discarded by the replay of the current run
  merged_this_run,    \* the current run has written <prefix>.json
  \* ---- excute_oax_queries.py ----
  main_pc,            \* main: gather, done, raised
  qpc,                \* process_query per query
  scout,              \* fetch_json of get_year_shards: [st, retries]
  scout_failed,       \* fetch_json returned None to get_year_shards
  shards,             \* the list returned by get_year_shards
  wst,                \* fetch_shard_worker per query and partition
  wcursor,            \* its cursor: the number of pages taken so far
  wretries,           \* retries of its current fetch_json call
  wend,               \* why its walk ended
  pushed,             \* how many ids it has put into the queue
  queue,              \* asyncio.Queue per query
  writer,             \* file_writer per query: none, running, done, cancelled
  outfile,            \* the lines written to the query's output file
  count,              \* file_writer's count
  total_ids,          \* the count process_query got from its writer
  semaphore,          \* free permits of global_semaphore
  env,                \* what the server and the network do in this run:
                      \* [pages, faults], the non-empty pages held and the
                      \* retryable outcomes produced
  served,             \* non-empty pages served so far
  faults,             \* retryable outcomes produced so far
  \* ---- get_year_shards applied to one aggregate response ----
  scout_in,           \* the response: NoData or Data(count, group_by)
  scout_out,          \* the list get_year_shards returned
  scout_done,
  \* ---- one logical request: _request_openalex_with_retries, fetch_json ----
  transport,          \* which of the two functions runs the request
  rpc,                \* send, sleep, returned, raised, none
  transient_attempt,  \* _request_openalex_with_retries: network and 5xx failures
  rate_limit_attempt, \* _request_openalex_with_retries: 429 responses
  fetch_json_retries, \* fetch_json: retries
  response,           \* the outcome of the last session.get
  sleep_for,          \* the last delay computed, in jitter units; -1: none
  error,              \* the exception _request_openalex_with_retries raised
  attempts,           \* calls of session.get so far
  seen_transient,     \* network errors and 5xx responses received so far
  seen_429,           \* 429 responses received so far
  last_transient_sleep, \* the delay computed at the previous transient failure
  \* ---- _deduplicate applied to one list of records ----
  records,            \* the input list
  kept,               \* the positions of the records in `out`, in order
  stats,              \* filtered_doi, filtered_id, filtered_title
  dedup_done,
  \* ---- 3_oax_fetch_benchmark_studies.py ----
  known,              \* the server: the DOIs OpenAlex holds a work for
  output_jsonl,       \* the lines of the output file on disk, by requested_doi
  checkpoint_ids,     \* the DOIs in <output>.checkpoint; {}: absent or empty
  doi_pc,
  out_f,              \* lines written to out_f and not yet on disk
  already, pending, since_last_save,
  batch_start,        \* position in pending of the first DOI of the batch
  d_pos,              \* position in pending of the DOI the inner loop is at
  results,            \* the DOIs fetch_batch returned a record for
  doi_runs,           \* process starts so far
  found_written,      \* DOIs whose record some run has passed to out_f.write
  processed           \* what the main loop of the last run did, DOI by DOI

fetchVars == <<pages, last_has_token, shard_files, checkpoint_file,
               final_file, pc, cursor, total_count, pulled, shard_paths,
               shard_idx, remaining_to_skip, buffer, next_cursor, runs,
               resume_mode, clears, wrote_this_run, skipped,
               merged_this_run>>

execVars == <<main_pc, qpc, scout, scout_failed, shards, wst, wcursor,
              wretries, wend, pushed, queue, writer, outfile, count,
              total_ids, semaphore, env, served, faults>>

scoutVars == <<scout_in, scout_out, scout_done>>

requestVars == <<transport, rpc, transient_attempt, rate_limit_attempt,
                 fetch_json_retries, response, sleep_for, error, attempts,
                 seen_transient, seen_429, last_transient_sleep>>

dedupVars == <<records, kept, stats, dedup_done>>

doiVars == <<known, output_jsonl, checkpoint_ids, doi_pc, out_f, already,
             pending, since_last_save, batch_start, d_pos, results,
             doi_runs, found_written, processed>>

pureVars == <<scoutVars, requestVars, dedupVars, doiVars>>

vars == <<fetchVars, execVars, pureVars>>

(***************************************************************************)
(* The server: a fixed, ordered result stream cut into pages.              *)
(***************************************************************************)
\* all sequences over S of length 0..n
RECURSIVE SeqsUpTo(_, _)
SeqsUpTo(S, n) ==
  IF n = 0 THEN {<<>>}
  ELSE LET shorter == SeqsUpTo(S, n - 1)
       IN shorter \cup {Append(s, x) : s \in {t \in shorter : Len(t) = n - 1}, x \in S}

\* pages of the given sizes holding the records first, first+1, ...
RECURSIVE BuildPages(_, _)
BuildPages(sizes, first) ==
  IF sizes = <<>> THEN <<>>
  ELSE <<[k \in 1..Head(sizes) |-> first + k - 1]>>
       \o BuildPages(Tail(sizes), first + Head(sizes))

AllRecords == Flatten(pages)

\* the JSON body of GET /works?cursor=c : results, meta.next_cursor, meta.count
Respond(c) ==
  LET p == c + 1
  IN [results |-> IF p <= Len(pages) THEN pages[p] ELSE <<>>,
      next_cursor |-> IF p < Len(pages) \/ (p = Len(pages) /\ last_has_token)
                      THEN p ELSE NoCursor,
      count |-> Len(AllRecords)]

(***************************************************************************)
(* Files.                                                                  *)
(***************************************************************************)
NoCheckpoint == [state |-> "absent", next_cursor |-> NoCursor,
                 saved_count |-> 0, next_shard_idx |-> 0]
TornCheckpoint == [state |-> "torn", next_cursor |-> NoCursor,
                   saved_count |-> 0, next_shard_idx |-> 0]
NoFinal == [state |-> "absent", recs |-> <<>>]

\* _write_shard: open(path, "w") and json.dump of the whole buffer
write_shard(files, idx, buf) ==
  [i \in DOMAIN files \cup {idx} |->
     IF i = idx THEN [ok |-> TRUE, recs |-> buf] ELSE files[i]]

\* a process killed inside _write_shard leaves a prefix of the JSON text
torn_shard(files, idx) ==
  [i \in DOMAIN files \cup {idx} |->
     IF i = idx THEN [ok |-> FALSE, recs |-> <<>>] ELSE files[i]]

\* _discover_existing_shards: paths ordered by index, next index
discover_paths(files) == Sorted(DOMAIN files)

\* a start that numbers its shards from 0 whatever is on disk
discover_next_idx_restart(files) == 0

discover_next_idx(files) ==
  IF DOMAIN files = {} THEN 0 ELSE MaxOf(DOMAIN files) + 1

\* _count_records_in_shards (json.load raises on a torn file)
shards_readable(files) == \A i \in DOMAIN files : files[i].ok
count_records_in_shards(files) ==
  SumSeq([k \in 1..Len(discover_paths(files)) |->
            Len(files[discover_paths(files)[k]].recs)])

\* _load_checkpoint: None when the file is missing or is not valid JSON
load_checkpoint(f) == IF f.state = "ok" THEN f ELSE NoCheckpoint

\* _save_checkpoint payload
save_checkpoint(nc, saved, idx) ==
  [state |-> "ok", next_cursor |-> nc, saved_count |-> saved,
   next_shard_idx |-> idx]

\* a reconciliation that trusts every readable checkpoint holding a cursor
checkpoint_trusted_unchecked(cp, existing_count, idx) ==
  /\ cp.state = "ok"
  /\ cp.next_cursor # NoCursor

\* line 322: cp_count == existing_count and cp_cursor and cp_shard_idx == shard_idx
checkpoint_trusted(cp, existing_count, idx) ==
  /\ cp.state = "ok"
  /\ cp.saved_count = existing_count
  /\ cp.next_cursor # NoCursor
  /\ cp.next_shard_idx = idx

\* a replay that always leaves the last record of a page in place
skip_now_short(remaining, works) == Min(remaining, Len(works) - 1)

\* lines 376-380: how many records of a page the replay discards
skip_now(remaining, works) == Min(remaining, Len(works))

\* lines 391-392: trim the last page when max_results is set
trim(works, got, max_results) ==
  IF max_results # NoLimit /\ got + Len(works) > max_results
  THEN TakeFirst(works, Max(0, max_results - got))
  ELSE works

\* a flush that waits until the buffer exceeds SHARD_SIZE
should_flush_late(buf) == Len(buf) > SHARD_SIZE

\* line 405: the buffer is flushed at the page boundary
should_flush(buf) == Len(buf) >= SHARD_SIZE

\* the records of the shard files in index order
ShardRecords ==
  Flatten([k \in 1..Len(discover_paths(shard_files)) |->
             shard_files[discover_paths(shard_files)[k]].recs])

(***************************************************************************)
(* Init                                                                    *)
(***************************************************************************)
Volatile0 ==
  /\ cursor = Star
  /\ total_count = -1
  /\ pulled = 0
  /\ shard_paths = <<>>
  /\ shard_idx = 0
  /\ remaining_to_skip = 0
  /\ buffer = <<>>
  /\ next_cursor = NoCursor

FetchState0 ==
  /\ shard_files = <<>>
  /\ checkpoint_file = NoCheckpoint
  /\ final_file = NoFinal
  /\ pc = "idle"
  /\ Volatile0
  /\ runs = 0
  /\ resume_mode = "none"
  /\ clears = 0
  /\ wrote_this_run = {}
  /\ skipped = 0
  /\ merged_this_run = FALSE

(***************************************************************************)
(* excute_oax_queries.py: state at the start of main(queries)              *)
(***************************************************************************)
Queries == 1..NumQueries
Slots == 1..MaxGroups

\* a partition: None (unfiltered) or "publication_year:<year>"
NoFilter == [filtered |-> FALSE, year |-> ""]
YearFilter(y) == [filtered |-> TRUE, year |-> y]

\* the None that process_query puts to stop the writer
Sentinel == <<0, 0>>

\* the runs of main that are explored: a server with MaxServed non-empty
\* pages behind a fault-free network, and a server with one page less
\* behind a network that produces MaxFaults retryable outcomes
Environments ==
  {[pages |-> MaxServed, faults |-> 0],
   [pages |-> MaxServed - 1, faults |-> MaxFaults]}

ExecState0 ==
  /\ main_pc = "gather"
  /\ qpc = [q \in Queries |-> "scout"]
  /\ scout = [q \in Queries |-> [st |-> "ready", retries |-> 0]]
  /\ scout_failed = [q \in Queries |-> FALSE]
  /\ shards = [q \in Queries |-> <<>>]
  /\ wst = [q \in Queries |-> [i \in Slots |-> "none"]]
  /\ wcursor = [q \in Queries |-> [i \in Slots |-> Star]]
  /\ wretries = [q \in Queries |-> [i \in Slots |-> 0]]
  /\ wend = [q \in Queries |-> [i \in Slots |-> "none"]]
  /\ pushed = [q \in Queries |-> [i \in Slots |-> 0]]
  /\ queue = [q \in Queries |-> <<>>]
  /\ writer = [q \in Queries |-> "none"]
  /\ outfile = [q \in Queries |-> <<>>]
  /\ count = [q \in Queries |-> 0]
  /\ total_ids = [q \in Queries |-> -1]
  /\ semaphore = MAX_CONCURRENT_REQUESTS
  /\ served = 0
  /\ faults = 0

ScoutState0 ==
  /\ scout_in = [ok |-> FALSE, count |-> 0, groups |-> <<>>]
  /\ scout_out = <<>>
  /\ scout_done = FALSE

\* no response yet, no Retry-After header, no error
NoHeader == [kind |-> "absent", seconds |-> 0]
NoResponse == [kind |-> "none", status |-> 0, retry_after |-> NoHeader]
NoError == [type |-> "None", text |-> "", status |-> 0, cause |-> "None"]

\* the locals of _request_openalex_with_retries (lines 203-204) and of
\* fetch_json (line 28) before the first attempt
RequestLocals0 ==
  /\ transient_attempt = 0
  /\ rate_limit_attempt = 0
  /\ fetch_json_retries = 0
  /\ response = NoResponse
  /\ sleep_for = -1
  /\ error = NoError
  /\ attempts = 0
  /\ seen_transient = 0
  /\ seen_429 = 0
  /\ last_transient_sleep = -1

RequestState0 ==
  /\ transport = "none"
  /\ rpc = "idle"
  /\ RequestLocals0

DedupState0 ==
  /\ records = <<>>
  /\ kept = <<>>
  /\ stats = [filtered_doi |-> 0, filtered_id |-> 0, filtered_title |-> 0]
  /\ dedup_done = FALSE

\* main of 3_oax_fetch_benchmark_studies.py before any run: no output
\* file, no checkpoint file
DoiLocals0 ==
  /\ out_f = <<>>
  /\ already = {}
  /\ pending = <<>>
  /\ since_last_save = 0
  /\ batch_start = 1
  /\ d_pos = 1
  /\ results = {}

DoiState0 ==
  /\ known = {}
  /\ output_jsonl = <<>>
  /\ checkpoint_ids = {}
  /\ doi_pc = "idle"
  /\ DoiLocals0
  /\ doi_runs = 0
  /\ found_written = {}
  /\ processed = <<>>

PureState0 ==
  /\ ScoutState0
  /\ RequestState0
  /\ DedupState0
  /\ DoiState0

InitFetch ==
  /\ PureState0
  /\ \E sizes \in SeqsUpTo(1..PER_PAGE, MaxPages) : pages = BuildPages(sizes, 1)
  /\ last_has_token \in BOOLEAN
  /\ FetchState0
  /\ ExecState0
  /\ env = [pages |-> 0, faults |-> 0]

InitExec ==
  /\ PureState0
  /\ pages = <<>>
  /\ last_has_token = FALSE
  /\ FetchState0
  /\ ExecState0
  /\ env \in Environments

(***************************************************************************)
(* 1_oax_fetch_studies.py: fetch_openalex_full and __main__                *)
(***************************************************************************)
VolatileReset ==
  /\ cursor' = Star
  /\ total_count' = -1
  /\ pulled' = 0
  /\ shard_paths' = <<>>
  /\ shard_idx' = 0
  /\ remaining_to_skip' = 0
  /\ buffer' = <<>>
  /\ next_cursor' = NoCursor

Server == <<pages, last_has_token>>
Disk == <<shard_files, checkpoint_file, final_file>>
Observed == <<runs, resume_mode, clears, wrote_this_run, skipped, merged_this_run>>

\* lines 286-345: a new process reconciles the checkpoint with the shards
Start ==
  /\ UNCHANGED <<execVars, pureVars>>
  /\ pc \in {"idle", "killed", "raised", "interrupted", "done"}
  /\ runs < MaxRuns
  /\ runs' = runs + 1
  /\ clears' = 0
  /\ wrote_this_run' = {}
  /\ skipped' = 0
  /\ merged_this_run' = FALSE
  /\ total_count' = -1
  /\ buffer' = <<>>
  /\ next_cursor' = NoCursor
  /\ UNCHANGED <<Server, Disk>>
  /\ IF DOMAIN shard_files = {}
     THEN /\ pc' = "fetch"
          /\ resume_mode' = "fresh"
          /\ cursor' = Star
          /\ pulled' = 0
          /\ shard_paths' = <<>>
          /\ shard_idx' = 0
          /\ remaining_to_skip' = 0
     ELSE IF ~shards_readable(shard_files)
     THEN \* json.load raises in _count_records_in_shards
          /\ pc' = "raised"
          /\ resume_mode' = "none"
          /\ cursor' = Star
          /\ pulled' = 0
          /\ shard_paths' = <<>>
          /\ shard_idx' = 0
          /\ remaining_to_skip' = 0
     ELSE LET existing_count == count_records_in_shards(shard_files)
              idx == discover_next_idx(shard_files)
              checkpoint == load_checkpoint(checkpoint_file)
          IN /\ pc' = "fetch"
             /\ shard_paths' = discover_paths(shard_files)
             /\ shard_idx' = idx
             /\ pulled' = existing_count
             /\ IF checkpoint_trusted(checkpoint, existing_count, idx)
                THEN /\ cursor' = checkpoint.next_cursor
                     /\ remaining_to_skip' = 0
                     /\ resume_mode' = "cursor"
                ELSE /\ cursor' = Star
                     /\ remaining_to_skip' = existing_count
                     /\ resume_mode' = "replay"

\* a walk that tests the continuation token before it takes the page
FetchPageBreaksEarly ==
  /\ UNCHANGED <<execVars, pureVars>>
  /\ pc = "fetch"
  /\ UNCHANGED <<Server, Disk, shard_paths, shard_idx, runs, resume_mode,
                 clears, wrote_this_run, merged_this_run>>
  /\ IF MAX_RESULTS # NoLimit /\ pulled >= MAX_RESULTS
     THEN /\ pc' = "final"
          /\ UNCHANGED <<cursor, total_count, pulled, remaining_to_skip,
                         buffer, next_cursor, skipped>>
     ELSE LET data == Respond(cursor)
              sk == IF remaining_to_skip > 0
                    THEN skip_now(remaining_to_skip, data.results) ELSE 0
              works == trim(DropFirst(data.results, sk), pulled, MAX_RESULTS)
              buf == buffer \o works
              got == pulled + Len(works)
          IN /\ total_count' = IF total_count = -1 THEN data.count ELSE total_count
             /\ IF data.results = <<>>
                THEN /\ pc' = "final"
                     /\ UNCHANGED <<cursor, pulled, remaining_to_skip, buffer,
                                    next_cursor, skipped>>
                ELSE IF data.next_cursor = NoCursor
                THEN /\ pc' = "final"
                     /\ cursor' = NoCursor
                     /\ UNCHANGED <<pulled, remaining_to_skip, buffer,
                                    next_cursor, skipped>>
                ELSE /\ remaining_to_skip' = remaining_to_skip - sk
                     /\ skipped' = skipped + sk
                     /\ buffer' = buf
                     /\ pulled' = got
                     /\ IF MAX_RESULTS # NoLimit /\ got >= MAX_RESULTS
                        THEN /\ pc' = "final"
                             /\ UNCHANGED <<cursor, next_cursor>>
                        ELSE /\ next_cursor' = data.next_cursor
                             /\ IF should_flush(buf)
                                THEN /\ pc' = "shard"
                                     /\ cursor' = cursor
                                ELSE /\ cursor' = data.next_cursor
                                     /\ pc' = IF data.next_cursor = NoCursor
                                              THEN "final" ELSE "fetch"

\* lines 347-414: one page is requested and taken into the buffer
FetchPage ==
  /\ UNCHANGED <<execVars, pureVars>>
  /\ pc = "fetch"
  /\ UNCHANGED <<Server, Disk, shard_paths, shard_idx, runs, resume_mode,
                 clears, wrote_this_run, merged_this_run>>
  /\ IF MAX_RESULTS # NoLimit /\ pulled >= MAX_RESULTS
     THEN /\ pc' = "final"
          /\ UNCHANGED <<cursor, total_count, pulled, remaining_to_skip,
                         buffer, next_cursor, skipped>>
     ELSE LET data == Respond(cursor)
              sk == IF remaining_to_skip > 0
                    THEN skip_now(remaining_to_skip, data.results) ELSE 0
              works == trim(DropFirst(data.results, sk), pulled, MAX_RESULTS)
              buf == buffer \o works
              got == pulled + Len(works)
          IN /\ total_count' = IF total_count = -1 THEN data.count ELSE total_count
             /\ IF data.results = <<>>
                THEN /\ pc' = "final"
                     /\ UNCHANGED <<cursor, pulled, remaining_to_skip, buffer,
                                    next_cursor, skipped>>
                ELSE /\ remaining_to_skip' = remaining_to_skip - sk
                     /\ skipped' = skipped + sk
                     /\ buffer' = buf
                     /\ pulled' = got
                     /\ IF MAX_RESULTS # NoLimit /\ got >= MAX_RESULTS
                        THEN /\ pc' = "final"
                             /\ UNCHANGED <<cursor, next_cursor>>
                        ELSE /\ next_cursor' = data.next_cursor
                             /\ IF should_flush(buf)
                                THEN /\ pc' = "shard"
                                     /\ cursor' = cursor
                                ELSE /\ cursor' = data.next_cursor
                                     /\ pc' = IF data.next_cursor = NoCursor
                                              THEN "final" ELSE "fetch"

\* a fetch whose error path also runs _clear_checkpoint (try/finally)
RequestRaisesAndClears ==
  /\ UNCHANGED <<execVars, pureVars>>
  /\ pc = "fetch"
  /\ ~(MAX_RESULTS # NoLimit /\ pulled >= MAX_RESULTS)
  /\ pc' = "raised"
  /\ checkpoint_file' = NoCheckpoint
  /\ clears' = clears + 1
  /\ VolatileReset
  /\ UNCHANGED <<Server, shard_files, final_file, runs, resume_mode,
                 wrote_this_run, skipped, merged_this_run>>

\* line 354: _request_openalex_with_retries raises RuntimeError, which
\* nothing catches: the process ends and the buffer is lost
RequestRaises ==
  /\ UNCHANGED <<execVars, pureVars>>
  /\ pc = "fetch"
  /\ ~(MAX_RESULTS # NoLimit /\ pulled >= MAX_RESULTS)
  /\ pc' = "raised"
  /\ VolatileReset
  /\ UNCHANGED <<Server, Disk, Observed>>

\* lines 405-408: the whole buffer becomes shard shard_idx
WriteShard ==
  /\ UNCHANGED <<execVars, pureVars>>
  /\ pc = "shard"
  /\ shard_files' = write_shard(shard_files, shard_idx, buffer)
  /\ shard_paths' = Append(shard_paths, shard_idx)
  /\ wrote_this_run' = wrote_this_run \cup {shard_idx}
  /\ shard_idx' = shard_idx + 1
  /\ buffer' = <<>>
  /\ pc' = "checkpoint"
  /\ UNCHANGED <<Server, checkpoint_file, final_file, cursor, total_count,
                 pulled, remaining_to_skip, next_cursor, runs, resume_mode,
                 clears, skipped, merged_this_run>>

\* a checkpoint that stores the cursor of the page just taken
SaveCheckpointCurrentCursor ==
  /\ UNCHANGED <<execVars, pureVars>>
  /\ pc = "checkpoint"
  /\ checkpoint_file' = IF next_cursor # NoCursor
                        THEN save_checkpoint(cursor, pulled, shard_idx)
                        ELSE checkpoint_file
  /\ cursor' = next_cursor
  /\ pc' = IF next_cursor = NoCursor THEN "final" ELSE "fetch"
  /\ UNCHANGED <<Server, shard_files, final_file, total_count, pulled,
                 shard_paths, shard_idx, remaining_to_skip, buffer,
                 next_cursor, Observed>>

\* lines 409-414: checkpoint when a continuation token exists, then advance
SaveCheckpoint ==
  /\ UNCHANGED <<execVars, pureVars>>
  /\ pc = "checkpoint"
  /\ checkpoint_file' = IF next_cursor # NoCursor
                        THEN save_checkpoint(next_cursor, pulled, shard_idx)
                        ELSE checkpoint_file
  /\ cursor' = next_cursor
  /\ pc' = IF next_cursor = NoCursor THEN "final" ELSE "fetch"
  /\ UNCHANGED <<Server, shard_files, final_file, total_count, pulled,
                 shard_paths, shard_idx, remaining_to_skip, buffer,
                 next_cursor, Observed>>

\* an end of the walk that leaves the buffer unwritten
FinalFlushSkipped ==
  /\ UNCHANGED <<execVars, pureVars>>
  /\ pc = "final"
  /\ pc' = "clear"
  /\ UNCHANGED <<Server, Disk, cursor, total_count, pulled, shard_paths,
                 shard_idx, remaining_to_skip, buffer, next_cursor, Observed>>

\* lines 416-419: the final, possibly under-full shard
FinalFlush ==
  /\ UNCHANGED <<execVars, pureVars>>
  /\ pc = "final"
  /\ IF buffer # <<>>
     THEN /\ shard_files' = write_shard(shard_files, shard_idx, buffer)
          /\ shard_paths' = Append(shard_paths, shard_idx)
          /\ wrote_this_run' = wrote_this_run \cup {shard_idx}
          /\ shard_idx' = shard_idx + 1
     ELSE UNCHANGED <<shard_files, shard_paths, wrote_this_run, shard_idx>>
  /\ pc' = "clear"
  /\ UNCHANGED <<Server, checkpoint_file, final_file, cursor, total_count,
                 pulled, remaining_to_skip, buffer, next_cursor, runs,
                 resume_mode, clears, skipped, merged_this_run>>

\* lines 420-422: _clear_checkpoint, then return to __main__
ClearCheckpoint ==
  /\ UNCHANGED <<execVars, pureVars>>
  /\ pc = "clear"
  /\ checkpoint_file' = NoCheckpoint
  /\ clears' = clears + 1
  /\ pc' = "returned"
  /\ UNCHANGED <<Server, shard_files, final_file, cursor, total_count,
                 pulled, shard_paths, shard_idx, remaining_to_skip, buffer,
                 next_cursor, runs, resume_mode, wrote_this_run, skipped,
                 merged_this_run>>

\* _merge_shards over the returned shard_paths
merge_shards(files, paths) == Flatten([k \in 1..Len(paths) |-> files[paths[k]].recs])

\* lines 449-458: merge, deduplicate, write <prefix>.json (the records of
\* the stream are pairwise distinct, so _deduplicate keeps them all)
MergeDedup ==
  /\ UNCHANGED <<execVars, pureVars>>
  /\ pc = "returned"
  /\ final_file' = [state |-> "ok", recs |-> merge_shards(shard_files, shard_paths)]
  /\ merged_this_run' = TRUE
  /\ pc' = "done"
  /\ UNCHANGED <<Server, shard_files, checkpoint_file, cursor, total_count,
                 pulled, shard_paths, shard_idx, remaining_to_skip, buffer,
                 next_cursor, runs, resume_mode, clears, wrote_this_run,
                 skipped>>

Running == {"fetch", "shard", "checkpoint", "final", "clear", "returned"}

\* the process is killed between two file operations
Kill ==
  /\ UNCHANGED <<execVars, pureVars>>
  /\ pc \in Running
  /\ pc' = "killed"
  /\ VolatileReset
  /\ UNCHANGED <<Server, Disk, Observed>>

\* the process is killed inside _write_shard, after open(path, "w")
KillInWriteShard ==
  /\ UNCHANGED <<execVars, pureVars>>
  /\ pc = "shard" \/ (pc = "final" /\ buffer # <<>>)
  /\ shard_files' = torn_shard(shard_files, shard_idx)
  /\ pc' = "killed"
  /\ VolatileReset
  /\ UNCHANGED <<Server, checkpoint_file, final_file, Observed>>

\* the process is killed inside _save_checkpoint, after open(path, "w")
\* has truncated the file and before json.dump has completed
KillInSaveCheckpoint ==
  /\ UNCHANGED <<execVars, pureVars>>
  /\ pc = "checkpoint"
  /\ next_cursor # NoCursor
  /\ checkpoint_file' = TornCheckpoint
  /\ pc' = "killed"
  /\ VolatileReset
  /\ UNCHANGED <<Server, shard_files, final_file, Observed>>

\* the operator aborts the run (SIGINT): KeyboardInterrupt is raised in the
\* main thread between two statements; nothing in the script catches it, so
\* the process ends as it is
KeyboardInterrupt ==
  /\ UNCHANGED <<execVars, pureVars>>
  /\ pc \in Running
  /\ pc' = "interrupted"
  /\ VolatileReset
  /\ UNCHANGED <<Server, Disk, Observed>>

NextFetch ==
  \/ Start
  \/ FetchPage
  \/ RequestRaises
  \/ WriteShard
  \/ SaveCheckpoint
  \/ FinalFlush
  \/ ClearCheckpoint
  \/ MergeDedup
  \/ Kill
  \/ KillInWriteShard
  \/ KillInSaveCheckpoint
  \/ KeyboardInterrupt

SpecFetch == InitFetch /\ [][NextFetch]_vars

(***************************************************************************)
(* excute_oax_queries.py                                                   *)
(***************************************************************************)
\* what one session.get may yield: 0 stands for a raised exception
\* (timeout, connection reset), the others are HTTP statuses
Statuses == {0, 200, 404, 429, 500, 501, 503}

\* line 32: the statuses fetch_json retries
RetryStatuses == {429, 500, 502, 503, 504}

\* lines 26-50, one turn of the while loop of fetch_json with `retries`
\* retries so far: "retry" (sleep, loop), "none" (return None) or "json"
fetch_json_step(retries, status) ==
  IF status = 0 \/ status \in RetryStatuses
  THEN IF retries + 1 > MAX_RETRIES THEN "none" ELSE "retry"
  ELSE IF status # 200 THEN "none" ELSE "json"

\* str(year).lower() on the facet keys of the model
Lower(t) == CASE t = "Unknown" -> "unknown"
              [] t = "UNKNOWN" -> "unknown"
              [] OTHER -> t

\* a facet key: JSON null, or a value shown by its str()
NullKey == [null |-> TRUE, text |-> ""]
Key(t) == [null |-> FALSE, text |-> t]
Keys == {NullKey, Key(""), Key("unknown"), Key("Unknown"), Key("2020"), Key("2021")}

\* the group_by lists served to process_query: distinct years in a fixed
\* order, any of them replaced by null or "unknown"
Years == <<"2020", "2021", "2022", "2023">>
GroupLists ==
  UNION {{g \in [1..n -> Keys] :
            \A j \in 1..n : g[j] \in {NullKey, Key("unknown"), Key(Years[j])}}
         : n \in 0..MaxGroups}

\* line 84: year and str(year).lower() != "unknown"
valid_year(k) == ~k.null /\ k.text # "" /\ Lower(k.text) # "unknown"

\* lines 79-85
RECURSIVE year_shards(_)
year_shards(groups) ==
  IF groups = <<>> THEN <<>>
  ELSE (IF valid_year(Head(groups)) THEN <<YearFilter(Head(groups).text)>> ELSE <<>>)
       \o year_shards(Tail(groups))

\* the aggregate response as get_year_shards sees it; ok = FALSE: fetch_json
\* returned None
NoData == [ok |-> FALSE, count |-> 0, groups |-> <<>>]
Data(c, g) == [ok |-> TRUE, count |-> c, groups |-> g]

\* a scout that shards only above the threshold
get_year_shards_above(data) ==
  IF ~data.ok THEN <<NoFilter>>
  ELSE IF data.count <= SHARDING_THRESHOLD THEN <<NoFilter>>
  ELSE year_shards(data.groups)

\* a scout without the fallback of lines 68-70
get_year_shards_no_fallback(data) ==
  IF ~data.ok THEN <<>>
  ELSE IF data.count < SHARDING_THRESHOLD THEN <<NoFilter>>
  ELSE year_shards(data.groups)

\* lines 52-88
get_year_shards(data) ==
  IF ~data.ok THEN <<NoFilter>>
  ELSE IF data.count < SHARDING_THRESHOLD THEN <<NoFilter>>
  ELSE year_shards(data.groups)

\* lines 124-126: the ids of the items of a page that carry an id; worker i
\* has met n such items before
RECURSIVE page_ids(_, _, _)
page_ids(i, n, items) ==
  IF items = <<>> THEN <<>>
  ELSE IF Head(items) THEN <<<<i, n + 1>>>> \o page_ids(i, n + 1, Tail(items))
  ELSE page_ids(i, n, Tail(items))

\* line 126: queue.put_nowait for each id in turn; asyncio.QueueFull is
\* raised at the first id that finds the queue at maxsize
RECURSIVE put_nowait_all(_, _)
put_nowait_all(qu, ids) ==
  IF ids = <<>> THEN [queue |-> qu, full |-> FALSE]
  ELSE IF Len(qu) >= QUEUE_MAXSIZE THEN [queue |-> qu, full |-> TRUE]
  ELSE put_nowait_all(Append(qu, Head(ids)), Tail(ids))

FetchParked == UNCHANGED <<fetchVars, env, pureVars>>

\* lines 165-176: queue, writer task and one worker task per shard
LaunchPipeline(q, sh) ==
  /\ shards' = [shards EXCEPT ![q] = sh]
  /\ writer' = [writer EXCEPT ![q] = "running"]
  /\ wst' = [wst EXCEPT ![q] = [i \in Slots |-> IF i <= Len(sh) THEN "waitsem" ELSE "none"]]
  /\ qpc' = [qpc EXCEPT ![q] = "gather"]

\* get_year_shards, line 67: the aggregate request is sent
ScoutSend(q) ==
  /\ main_pc = "gather"
  /\ qpc[q] = "scout"
  /\ scout[q].st = "ready"
  /\ scout' = [scout EXCEPT ![q].st = "inflight"]
  /\ UNCHANGED <<main_pc, qpc, scout_failed, shards, wst, wcursor, wretries,
                 wend, pushed, queue, writer, outfile, count, total_ids,
                 semaphore, served, faults>>
  /\ FetchParked

\* fetch_json lines 32-38, 45-50: retry after a sleep
ScoutRetry(q) ==
  /\ main_pc = "gather"
  /\ qpc[q] = "scout"
  /\ scout[q].st = "inflight"
  /\ faults < env.faults
  /\ faults' = faults + 1
  /\ \E status \in Statuses : fetch_json_step(scout[q].retries, status) = "retry"
  /\ scout' = [scout EXCEPT ![q] = [st |-> "ready", retries |-> scout[q].retries + 1]]
  /\ UNCHANGED <<main_pc, qpc, scout_failed, shards, wst, wcursor, wretries,
                 wend, pushed, queue, writer, outfile, count, total_ids,
                 semaphore, served>>
  /\ FetchParked

\* fetch_json returns None, get_year_shards lines 68-70, process_query 165-176
ScoutFails(q) ==
  /\ main_pc = "gather"
  /\ qpc[q] = "scout"
  /\ scout[q].st = "inflight"
  /\ \E status \in Statuses :
       /\ fetch_json_step(scout[q].retries, status) = "none"
       /\ IF status = 0 \/ status \in RetryStatuses
          THEN faults < env.faults /\ faults' = faults + 1
          ELSE faults' = faults
  /\ scout' = [scout EXCEPT ![q] = [st |-> "returned", retries |-> 0]]
  /\ scout_failed' = [scout_failed EXCEPT ![q] = TRUE]
  /\ LaunchPipeline(q, get_year_shards(NoData))
  /\ UNCHANGED <<main_pc, wcursor, wretries, wend, pushed, queue, outfile,
                 count, total_ids, semaphore, served>>
  /\ FetchParked

\* fetch_json returns the JSON, get_year_shards 72-88, process_query 165-176
ScoutAnswers(q) ==
  /\ main_pc = "gather"
  /\ qpc[q] = "scout"
  /\ scout[q].st = "inflight"
  /\ fetch_json_step(scout[q].retries, 200) = "json"
  /\ scout' = [scout EXCEPT ![q] = [st |-> "returned", retries |-> 0]]
  /\ \E c \in (SHARDING_THRESHOLD - 1)..(SHARDING_THRESHOLD + 1),
        g \in GroupLists :
       LaunchPipeline(q, get_year_shards(Data(c, g)))
  /\ UNCHANGED <<main_pc, scout_failed, wcursor, wretries, wend, pushed,
                 queue, outfile, count, total_ids, semaphore, served, faults>>
  /\ FetchParked

\* fetch_shard_worker lines 95-114: async with semaphore, then the first
\* page request is sent without another suspension
WorkerAcquire(q, i) ==
  /\ main_pc = "gather"
  /\ wst[q][i] = "waitsem"
  /\ semaphore > 0
  /\ semaphore' = semaphore - 1
  /\ wst' = [wst EXCEPT ![q][i] = "inflight"]
  /\ UNCHANGED <<main_pc, qpc, scout, scout_failed, shards, wcursor,
                 wretries, wend, pushed, queue, writer, outfile, count,
                 total_ids, served, faults>>
  /\ FetchParked

\* fetch_json lines 37, 50: the backoff sleep ends, the request is sent again
WorkerSend(q, i) ==
  /\ main_pc = "gather"
  /\ wst[q][i] = "sleep"
  /\ wst' = [wst EXCEPT ![q][i] = "inflight"]
  /\ UNCHANGED <<main_pc, qpc, scout, scout_failed, shards, wcursor,
                 wretries, wend, pushed, queue, writer, outfile, count,
                 total_ids, semaphore, served, faults>>
  /\ FetchParked

\* fetch_json lines 32-38, 45-50: retry after a sleep
WorkerRetry(q, i) ==
  /\ main_pc = "gather"
  /\ wst[q][i] = "inflight"
  /\ faults < env.faults
  /\ faults' = faults + 1
  /\ \E status \in Statuses : fetch_json_step(wretries[q][i], status) = "retry"
  /\ wst' = [wst EXCEPT ![q][i] = "sleep"]
  /\ wretries' = [wretries EXCEPT ![q][i] = wretries[q][i] + 1]
  /\ UNCHANGED <<main_pc, qpc, scout, scout_failed, shards, wcursor, wend,
                 pushed, queue, writer, outfile, count, total_ids, semaphore,
                 served>>
  /\ FetchParked

\* a worker that lets the failure of its fetch escape as an exception
WorkerFetchRaises(q, i) ==
  /\ main_pc = "gather"
  /\ wst[q][i] = "inflight"
  /\ \E status \in Statuses :
       /\ fetch_json_step(wretries[q][i], status) = "none"
       /\ IF status = 0 \/ status \in RetryStatuses
          THEN faults < env.faults /\ faults' = faults + 1
          ELSE faults' = faults
  /\ wst' = [wst EXCEPT ![q][i] = "raised"]
  /\ wend' = [wend EXCEPT ![q][i] = "fetch_failed"]
  /\ wretries' = [wretries EXCEPT ![q][i] = 0]
  /\ wcursor' = [wcursor EXCEPT ![q][i] = NoCursor]
  /\ semaphore' = semaphore + 1
  /\ UNCHANGED <<main_pc, qpc, scout, scout_failed, shards, pushed, queue,
                 writer, outfile, count, total_ids, served>>
  /\ FetchParked

\* a worker that leaves on a failed fetch without releasing the semaphore
WorkerFetchFailsKeepsPermit(q, i) ==
  /\ main_pc = "gather"
  /\ wst[q][i] = "inflight"
  /\ \E status \in Statuses :
       /\ fetch_json_step(wretries[q][i], status) = "none"
       /\ IF status = 0 \/ status \in RetryStatuses
          THEN faults < env.faults /\ faults' = faults + 1
          ELSE faults' = faults
  /\ wst' = [wst EXCEPT ![q][i] = "done"]
  /\ wend' = [wend EXCEPT ![q][i] = "fetch_failed"]
  /\ wretries' = [wretries EXCEPT ![q][i] = 0]
  /\ wcursor' = [wcursor EXCEPT ![q][i] = NoCursor]
  /\ semaphore' = semaphore
  /\ UNCHANGED <<main_pc, qpc, scout, scout_failed, shards, pushed, queue,
                 writer, outfile, count, total_ids, served>>
  /\ FetchParked

\* fetch_json returns None: lines 116-117 break, the semaphore is released
WorkerFetchFails(q, i) ==
  /\ main_pc = "gather"
  /\ wst[q][i] = "inflight"
  /\ \E status \in Statuses :
       /\ fetch_json_step(wretries[q][i], status) = "none"
       /\ IF status = 0 \/ status \in RetryStatuses
          THEN faults < env.faults /\ faults' = faults + 1
          ELSE faults' = faults
  /\ wst' = [wst EXCEPT ![q][i] = "done"]
  /\ wend' = [wend EXCEPT ![q][i] = "fetch_failed"]
  /\ wretries' = [wretries EXCEPT ![q][i] = 0]
  /\ wcursor' = [wcursor EXCEPT ![q][i] = NoCursor]
  /\ semaphore' = semaphore + 1
  /\ UNCHANGED <<main_pc, qpc, scout, scout_failed, shards, pushed, queue,
                 writer, outfile, count, total_ids, served>>
  /\ FetchParked

\* lines 119-128: a page arrives and its ids are pushed
WorkerPage(q, i) ==
  /\ main_pc = "gather"
  /\ wst[q][i] = "inflight"
  /\ fetch_json_step(wretries[q][i], 200) = "json"
  /\ UNCHANGED <<main_pc, qpc, scout, scout_failed, shards, writer, outfile,
                 count, total_ids, faults>>
  /\ FetchParked
  /\ \E items \in SeqsUpTo(BOOLEAN, PER_PAGE), has_next \in BOOLEAN :
       /\ items # <<>> => served < env.pages
       /\ served' = IF items # <<>> THEN served + 1 ELSE served
       /\ IF items = <<>>
          THEN /\ wst' = [wst EXCEPT ![q][i] = "done"]
               /\ wend' = [wend EXCEPT ![q][i] = "exhausted"]
               /\ wretries' = [wretries EXCEPT ![q][i] = 0]
               /\ wcursor' = [wcursor EXCEPT ![q][i] = NoCursor]
               /\ semaphore' = semaphore + 1
               /\ UNCHANGED <<pushed, queue>>
          ELSE LET r == put_nowait_all(queue[q], page_ids(i, pushed[q][i], items))
               IN /\ queue' = [queue EXCEPT ![q] = r.queue]
                  /\ pushed' = [pushed EXCEPT ![q][i] =
                                  pushed[q][i] + Len(r.queue) - Len(queue[q])]
                  /\ wretries' = [wretries EXCEPT ![q][i] = 0]
                  /\ IF r.full
                     THEN \* asyncio.QueueFull leaves the worker task
                          /\ wst' = [wst EXCEPT ![q][i] = "raised"]
                          /\ wend' = [wend EXCEPT ![q][i] = "queue_full"]
                          /\ semaphore' = semaphore + 1
                          /\ wcursor' = [wcursor EXCEPT ![q][i] = NoCursor]
                     ELSE IF has_next
                     THEN /\ wst' = [wst EXCEPT ![q][i] = "inflight"]
                          /\ wcursor' = [wcursor EXCEPT ![q][i] = wcursor[q][i] + 1]
                          /\ UNCHANGED <<wend, semaphore>>
                     ELSE \* line 128: cursor = None ends the while loop
                          /\ wst' = [wst EXCEPT ![q][i] = "done"]
                          /\ wend' = [wend EXCEPT ![q][i] = "exhausted"]
                          /\ semaphore' = semaphore + 1
                          /\ wcursor' = [wcursor EXCEPT ![q][i] = NoCursor]

\* a writer that writes the newest queued item first
RECURSIVE taken_newest_first(_)
taken_newest_first(qu) ==
  IF qu = <<>> \/ Head(qu) = Sentinel THEN <<>>
  ELSE taken_newest_first(Tail(qu)) \o <<Head(qu)>>

\* the items file_writer takes before it meets the sentinel or an empty queue
RECURSIVE taken(_)
taken(qu) ==
  IF qu = <<>> \/ Head(qu) = Sentinel THEN <<>>
  ELSE <<Head(qu)>> \o taken(Tail(qu))

\* file_writer lines 139-147: queue.get() suspends only on an empty queue,
\* so the writer writes every queued id in one turn; it stops at the sentinel
WriterStep(q) ==
  /\ main_pc = "gather"
  /\ writer[q] = "running"
  /\ queue[q] # <<>>
  /\ LET ids == taken(queue[q])
         rest == SubSeq(queue[q], Len(ids) + 1, Len(queue[q]))
     IN /\ outfile' = [outfile EXCEPT ![q] = outfile[q] \o ids]
        /\ count' = [count EXCEPT ![q] = count[q] + Len(ids)]
        /\ IF rest # <<>>
           THEN /\ writer' = [writer EXCEPT ![q] = "done"]
                /\ queue' = [queue EXCEPT ![q] = Tail(rest)]
           ELSE /\ queue' = [queue EXCEPT ![q] = <<>>]
                /\ UNCHANGED writer
  /\ UNCHANGED <<main_pc, qpc, scout, scout_failed, shards, wst, wcursor,
                 wretries, wend, pushed, total_ids, semaphore,
                 served, faults>>
  /\ FetchParked

WorkersOf(q) == {i \in Slots : wst[q][i] # "none"}

\* a process_query that puts the stop marker without waiting for gather
PutSentinelEarly(q) ==
  /\ main_pc = "gather"
  /\ qpc[q] = "gather"
  /\ Len(queue[q]) < QUEUE_MAXSIZE
  /\ queue' = [queue EXCEPT ![q] = Append(queue[q], Sentinel)]
  /\ qpc' = [qpc EXCEPT ![q] = "join_writer"]
  /\ UNCHANGED <<main_pc, scout, scout_failed, shards, wst, wcursor,
                 wretries, wend, pushed, writer, outfile, count, total_ids,
                 semaphore,
                 served, faults>>
  /\ FetchParked

\* process_query lines 179-182: gather returned, await queue.put(None)
PutSentinel(q) ==
  /\ main_pc = "gather"
  /\ qpc[q] = "gather"
  /\ \A i \in WorkersOf(q) : wst[q][i] = "done"
  /\ Len(queue[q]) < QUEUE_MAXSIZE
  /\ queue' = [queue EXCEPT ![q] = Append(queue[q], Sentinel)]
  /\ qpc' = [qpc EXCEPT ![q] = "join_writer"]
  /\ UNCHANGED <<main_pc, scout, scout_failed, shards, wst, wcursor,
                 wretries, wend, pushed, writer, outfile, count, total_ids,
                 semaphore,
                 served, faults>>
  /\ FetchParked

\* process_query lines 183-186: total_ids = await writer_task
JoinWriter(q) ==
  /\ main_pc = "gather"
  /\ qpc[q] = "join_writer"
  /\ writer[q] = "done"
  /\ total_ids' = [total_ids EXCEPT ![q] = count[q]]
  /\ qpc' = [qpc EXCEPT ![q] = "done"]
  /\ UNCHANGED <<main_pc, scout, scout_failed, shards, wst, wcursor,
                 wretries, wend, pushed, queue, writer, outfile, count,
                 semaphore,
                 served, faults>>
  /\ FetchParked

\* process_query line 179: gather re-raises the exception of a worker task
GatherRaises(q) ==
  /\ main_pc = "gather"
  /\ qpc[q] = "gather"
  /\ \E i \in WorkersOf(q) : wst[q][i] = "raised"
  /\ qpc' = [qpc EXCEPT ![q] = "failed"]
  /\ UNCHANGED <<main_pc, scout, scout_failed, shards, wst, wcursor,
                 wretries, wend, pushed, queue, writer, outfile, count,
                 total_ids, semaphore,
                 served, faults>>
  /\ FetchParked

\* main line 199 and asyncio.run: the exception of a process_query leaves
\* main, and the event loop cancels every task that is still pending
MainRaises ==
  /\ main_pc = "gather"
  /\ \E q \in Queries : qpc[q] = "failed"
  /\ main_pc' = "raised"
  /\ qpc' = [q \in Queries |-> IF qpc[q] \in {"done", "failed"} THEN qpc[q] ELSE "cancelled"]
  /\ wst' = [q \in Queries |-> [i \in Slots |->
               IF wst[q][i] \in {"waitsem", "sleep", "inflight"} THEN "cancelled"
               ELSE wst[q][i]]]
  /\ writer' = [q \in Queries |-> IF writer[q] = "running" THEN "cancelled" ELSE writer[q]]
  /\ UNCHANGED <<scout, scout_failed, shards, wcursor, wretries, wend,
                 pushed, queue, outfile, count, total_ids, semaphore,
                 served, faults>>
  /\ FetchParked

\* main line 199: gather over all process_query calls returns
MainReturns ==
  /\ main_pc = "gather"
  /\ \A q \in Queries : qpc[q] = "done"
  /\ main_pc' = "done"
  /\ UNCHANGED <<qpc, scout, scout_failed, shards, wst, wcursor, wretries,
                 wend, pushed, queue, writer, outfile, count, total_ids,
                 semaphore,
                 served, faults>>
  /\ FetchParked

NextExec ==
  \/ \E q \in Queries : ScoutSend(q)
  \/ \E q \in Queries : ScoutRetry(q)
  \/ \E q \in Queries : ScoutFails(q)
  \/ \E q \in Queries : ScoutAnswers(q)
  \/ \E q \in Queries, i \in Slots : WorkerAcquire(q, i)
  \/ \E q \in Queries, i \in Slots : WorkerSend(q, i)
  \/ \E q \in Queries, i \in Slots : WorkerRetry(q, i)
  \/ \E q \in Queries, i \in Slots : WorkerFetchFails(q, i)
  \/ \E q \in Queries, i \in Slots : WorkerPage(q, i)
  \/ \E q \in Queries : WriterStep(q)
  \/ \E q \in Queries : PutSentinel(q)
  \/ \E q \in Queries : JoinWriter(q)
  \/ \E q \in Queries : GatherRaises(q)
  \/ MainRaises
  \/ MainReturns

SpecExec == InitExec /\ [][NextExec]_vars

\* the event loop of asyncio.run keeps running whatever task is ready, and
\* every request that is in flight is answered
SpecExecFair == SpecExec /\ WF_vars(NextExec)

(***************************************************************************)
(* get_year_shards as a function of the aggregate response.                *)
(***************************************************************************)
InitScout ==
  /\ pages = <<>>
  /\ last_has_token = FALSE
  /\ FetchState0
  /\ ExecState0
  /\ env = [pages |-> 0, faults |-> 0]
  /\ scout_in \in {NoData} \cup
                  {Data(c, g) : c \in 0..(SHARDING_THRESHOLD + 1),
                                g \in SeqsUpTo(Keys, MaxGroups)}
  /\ scout_out = <<>>
  /\ scout_done = FALSE
  /\ RequestState0
  /\ DedupState0
  /\ DoiState0

ApplyScout ==
  /\ ~scout_done
  /\ scout_out' = get_year_shards(scout_in)
  /\ scout_done' = TRUE
  /\ UNCHANGED <<fetchVars, execVars, scout_in, requestVars, dedupVars,
                 doiVars>>

NextScout == ApplyScout

SpecScout == InitScout /\ [][NextScout]_vars

(***************************************************************************)
(* One logical request: _request_openalex_with_retries of                  *)
(* 1_oax_fetch_studies.py and fetch_json of excute_oax_queries.py, each    *)
(* against a server and a network that answer every attempt as they like.  *)
(***************************************************************************)
\* MAX_REQUEST_RETRIES = 10 in the source.
MAX_REQUEST_RETRIES == 10
\* MAX_RATE_LIMIT_RETRIES = 1000 in the source (scaled).
MAX_RATE_LIMIT_RETRIES == 8
\* BASE_BACKOFF_SECONDS = 2 in the source.
BASE_BACKOFF_SECONDS == 2
\* MAX_BACKOFF_SECONDS = 90 in the source.
MAX_BACKOFF_SECONDS == 90
\* lines 242 and 244: min(rate_limit_attempt - 1, 6)
RATE_LIMIT_MAX_EXPONENT == 6
\* RETRY_BACKOFF_SECONDS = 2.0 in excute_oax_queries.py.
RETRY_BACKOFF_SECONDS == 2

\* random.uniform(0, 1.0) is drawn from the JitterSteps values
\* 0, 1/JitterSteps, ..., (JitterSteps - 1)/JitterSteps; every delay is
\* counted in units of 1/JitterSteps second
JitterSteps == 2
Jitter == 0..(JitterSteps - 1)
Seconds(n) == n * JitterSteps

\* the statuses session.get of requests may deliver
HttpStatuses == {200, 204, 304, 404, 429, 500, 503}

\* the Retry-After header of a 429: absent, empty, an HTTP-date (float()
\* raises ValueError) or a number of seconds
RetryAfterHeaders ==
  {NoHeader, [kind |-> "empty", seconds |-> 0], [kind |-> "date", seconds |-> 0]}
  \cup {[kind |-> "seconds", seconds |-> s] :
          s \in {0, 1, MAX_BACKOFF_SECONDS, MAX_BACKOFF_SECONDS + 30}}

Exception == [kind |-> "exception", status |-> 0, retry_after |-> NoHeader]
Status(s, h) == [kind |-> "status", status |-> s, retry_after |-> h]

\* a transient schedule without the cap
transient_backoff_uncapped(n) == BASE_BACKOFF_SECONDS * (2 ^ (n - 1))

\* lines 220 and 263: min(MAX_BACKOFF_SECONDS, BASE_BACKOFF_SECONDS * 2 ** (transient_attempt - 1))
transient_backoff(n) ==
  Min(MAX_BACKOFF_SECONDS, BASE_BACKOFF_SECONDS * (2 ^ (n - 1)))

\* lines 242 and 244
rate_limit_backoff(n) ==
  Min(MAX_BACKOFF_SECONDS,
      BASE_BACKOFF_SECONDS * (2 ^ Min(n - 1, RATE_LIMIT_MAX_EXPONENT)))

\* lines 237-244: the delay after the n-th 429, before the jitter
retry_after_delay(h, n) ==
  IF h.kind = "seconds" THEN Min(MAX_BACKOFF_SECONDS, h.seconds)
  ELSE rate_limit_backoff(n)

\* response.raise_for_status() raises HTTPError for 4xx and 5xx
raise_for_status(s) == 400 <= s /\ s < 600

\* lines 216-218
exception_error ==
  [type |-> "RuntimeError",
   text |-> "OpenAlex request failed after MAX_REQUEST_RETRIES retries: <exception>",
   status |-> 0, cause |-> "RequestException"]

\* lines 253-255
rate_limit_error ==
  [type |-> "RuntimeError",
   text |-> "OpenAlex request failed with HTTP 429 after MAX_RATE_LIMIT_RETRIES retries",
   status |-> 429, cause |-> "None"]

\* lines 277-283: the error after a break out of the loop
final_error(s) ==
  IF raise_for_status(s)
  THEN [type |-> "RuntimeError",
        text |-> "OpenAlex request failed with HTTP <status> after <transient_attempt> transient retries",
        status |-> s, cause |-> "HTTPError"]
  ELSE [type |-> "RuntimeError",
        text |-> "OpenAlex request failed after MAX_REQUEST_RETRIES retries",
        status |-> 0, cause |-> "None"]

RequestParked ==
  UNCHANGED <<fetchVars, execVars, scoutVars, dedupVars, doiVars>>

InitRequest ==
  /\ pages = <<>>
  /\ last_has_token = FALSE
  /\ FetchState0
  /\ ExecState0
  /\ env = [pages |-> 0, faults |-> 0]
  /\ ScoutState0
  /\ DedupState0
  /\ DoiState0
  /\ transport \in {"requests", "aiohttp"}
  /\ rpc = "send"
  /\ RequestLocals0

\* lines 211-230: session.get raises requests.RequestException
RequestException ==
  /\ transport = "requests"
  /\ rpc = "send"
  /\ attempts' = attempts + 1
  /\ response' = Exception
  /\ transient_attempt' = transient_attempt + 1
  /\ seen_transient' = seen_transient + 1
  /\ IF transient_attempt + 1 >= MAX_REQUEST_RETRIES
     THEN /\ rpc' = "raised"
          /\ error' = exception_error
          /\ UNCHANGED <<sleep_for, last_transient_sleep>>
     ELSE /\ \E jitter \in Jitter :
               LET delay == Seconds(transient_backoff(transient_attempt + 1)) + jitter
               IN sleep_for' = delay /\ last_transient_sleep' = delay
          /\ rpc' = "sleep"
          /\ UNCHANGED error
  /\ UNCHANGED <<transport, rate_limit_attempt, fetch_json_retries, seen_429>>
  /\ RequestParked

\* lines 232-233: return response, key_index
RequestOk ==
  /\ transport = "requests"
  /\ rpc = "send"
  /\ attempts' = attempts + 1
  /\ response' = Status(200, NoHeader)
  /\ rpc' = "returned"
  /\ UNCHANGED <<transport, transient_attempt, rate_limit_attempt,
                 fetch_json_retries, sleep_for, error, seen_transient,
                 seen_429, last_transient_sleep>>
  /\ RequestParked

\* a 429 that is also counted as a transient failure
RateLimitedSharedBudget ==
  /\ transport = "requests"
  /\ rpc = "send"
  /\ attempts' = attempts + 1
  /\ seen_429' = seen_429 + 1
  /\ rate_limit_attempt' = rate_limit_attempt + 1
  /\ transient_attempt' = transient_attempt + 1
  /\ \E h \in RetryAfterHeaders, jitter \in Jitter :
       /\ response' = Status(429, h)
       /\ sleep_for' = Seconds(retry_after_delay(h, rate_limit_attempt + 1)) + jitter
  /\ IF rate_limit_attempt + 1 >= MAX_RATE_LIMIT_RETRIES
        \/ transient_attempt + 1 >= MAX_REQUEST_RETRIES
     THEN rpc' = "raised" /\ error' = rate_limit_error
     ELSE rpc' = "sleep" /\ UNCHANGED error
  /\ UNCHANGED <<transport, fetch_json_retries, seen_transient,
                 last_transient_sleep>>
  /\ RequestParked

\* lines 235-257: HTTP 429
RateLimited ==
  /\ transport = "requests"
  /\ rpc = "send"
  /\ attempts' = attempts + 1
  /\ seen_429' = seen_429 + 1
  /\ rate_limit_attempt' = rate_limit_attempt + 1
  /\ \E h \in RetryAfterHeaders, jitter \in Jitter :
       /\ response' = Status(429, h)
       /\ sleep_for' = Seconds(retry_after_delay(h, rate_limit_attempt + 1)) + jitter
  /\ IF rate_limit_attempt + 1 >= MAX_RATE_LIMIT_RETRIES
     THEN rpc' = "raised" /\ error' = rate_limit_error
     ELSE rpc' = "sleep" /\ UNCHANGED error
  /\ UNCHANGED <<transport, transient_attempt, fetch_json_retries,
                 seen_transient, last_transient_sleep>>
  /\ RequestParked

\* a 5xx that is retried without a budget
ServerErrorUnbounded ==
  /\ transport = "requests"
  /\ rpc = "send"
  /\ attempts' = attempts + 1
  /\ seen_transient' = seen_transient + 1
  /\ \E s \in {t \in HttpStatuses : 500 <= t /\ t < 600}, jitter \in Jitter :
       /\ response' = Status(s, NoHeader)
       /\ sleep_for' = Seconds(BASE_BACKOFF_SECONDS) + jitter
       /\ last_transient_sleep' = Seconds(BASE_BACKOFF_SECONDS) + jitter
  /\ rpc' = "sleep"
  /\ UNCHANGED <<transport, transient_attempt, rate_limit_attempt,
                 fetch_json_retries, error, seen_429>>
  /\ RequestParked

\* lines 259-273 and, once the budget is spent, 277-282: HTTP 5xx
ServerError ==
  /\ transport = "requests"
  /\ rpc = "send"
  /\ attempts' = attempts + 1
  /\ transient_attempt' = transient_attempt + 1
  /\ seen_transient' = seen_transient + 1
  /\ \E s \in {t \in HttpStatuses : 500 <= t /\ t < 600} :
       /\ response' = Status(s, NoHeader)
       /\ IF transient_attempt + 1 >= MAX_REQUEST_RETRIES
          THEN /\ rpc' = "raised"
               /\ error' = final_error(s)
               /\ UNCHANGED <<sleep_for, last_transient_sleep>>
          ELSE /\ \E jitter \in Jitter :
                    LET delay == Seconds(transient_backoff(transient_attempt + 1)) + jitter
                    IN sleep_for' = delay /\ last_transient_sleep' = delay
               /\ rpc' = "sleep"
               /\ UNCHANGED error
  /\ UNCHANGED <<transport, rate_limit_attempt, fetch_json_retries, seen_429>>
  /\ RequestParked

\* a status outside 200, 429 and 5xx that is retried like a 5xx
OtherStatusRetried ==
  /\ transport = "requests"
  /\ rpc = "send"
  /\ attempts' = attempts + 1
  /\ transient_attempt' = transient_attempt + 1
  /\ \E s \in {t \in HttpStatuses : t \notin {200, 429} /\ ~(500 <= t /\ t < 600)} :
       /\ response' = Status(s, NoHeader)
       /\ IF transient_attempt + 1 >= MAX_REQUEST_RETRIES
          THEN /\ rpc' = "raised"
               /\ error' = final_error(s)
               /\ UNCHANGED <<sleep_for, last_transient_sleep>>
          ELSE /\ \E jitter \in Jitter :
                    LET delay == Seconds(transient_backoff(transient_attempt + 1)) + jitter
                    IN sleep_for' = delay /\ last_transient_sleep' = delay
               /\ rpc' = "sleep"
               /\ UNCHANGED error
  /\ UNCHANGED <<transport, rate_limit_attempt, fetch_json_retries,
                 seen_transient, seen_429>>
  /\ RequestParked

\* lines 275-283: any other status breaks the loop and raises
OtherStatus ==
  /\ transport = "requests"
  /\ rpc = "send"
  /\ attempts' = attempts + 1
  /\ \E s \in {t \in HttpStatuses : t \notin {200, 429} /\ ~(500 <= t /\ t < 600)} :
       /\ response' = Status(s, NoHeader)
       /\ error' = final_error(s)
  /\ rpc' = "raised"
  /\ UNCHANGED <<transport, transient_attempt, rate_limit_attempt,
                 fetch_json_retries, sleep_for, seen_transient, seen_429,
                 last_transient_sleep>>
  /\ RequestParked

\* time.sleep(sleep_for) or asyncio.sleep returns: the loop sends again
WakeUp ==
  /\ rpc = "sleep"
  /\ rpc' = "send"
  /\ UNCHANGED <<transport, transient_attempt, rate_limit_attempt,
                 fetch_json_retries, response, sleep_for, error, attempts,
                 seen_transient, seen_429, last_transient_sleep>>
  /\ RequestParked

\* the outcome of session.get in fetch_json: status 0 is a raised exception
Outcome(s) == IF s = 0 THEN Exception ELSE Status(s, NoHeader)

\* fetch_json lines 32-38 and 45-50: sleep RETRY_BACKOFF_SECONDS * retries
FetchJsonRetry ==
  /\ transport = "aiohttp"
  /\ rpc = "send"
  /\ attempts' = attempts + 1
  /\ \E s \in Statuses :
       /\ fetch_json_step(fetch_json_retries, s) = "retry"
       /\ response' = Outcome(s)
       /\ seen_429' = IF s = 429 THEN seen_429 + 1 ELSE seen_429
       /\ seen_transient' = IF s = 429 THEN seen_transient ELSE seen_transient + 1
  /\ fetch_json_retries' = fetch_json_retries + 1
  /\ sleep_for' = Seconds(RETRY_BACKOFF_SECONDS * (fetch_json_retries + 1))
  /\ rpc' = "sleep"
  /\ UNCHANGED <<transport, transient_attempt, rate_limit_attempt, error,
                 last_transient_sleep>>
  /\ RequestParked

\* fetch_json lines 34-36, 40-42 and 47-49: return None
FetchJsonNone ==
  /\ transport = "aiohttp"
  /\ rpc = "send"
  /\ attempts' = attempts + 1
  /\ \E s \in Statuses :
       /\ fetch_json_step(fetch_json_retries, s) = "none"
       /\ response' = Outcome(s)
       /\ fetch_json_retries' = IF s = 0 \/ s \in RetryStatuses
                                THEN fetch_json_retries + 1
                                ELSE fetch_json_retries
       /\ seen_429' = IF s = 429 THEN seen_429 + 1 ELSE seen_429
       /\ seen_transient' = IF s = 0 \/ s \in RetryStatuses \ {429}
                            THEN seen_transient + 1 ELSE seen_transient
  /\ rpc' = "none"
  /\ UNCHANGED <<transport, transient_attempt, rate_limit_attempt, sleep_for,
                 error, last_transient_sleep>>
  /\ RequestParked

\* fetch_json line 44: return await response.json()
FetchJsonOk ==
  /\ transport = "aiohttp"
  /\ rpc = "send"
  /\ fetch_json_step(fetch_json_retries, 200) = "json"
  /\ attempts' = attempts + 1
  /\ response' = Outcome(200)
  /\ rpc' = "returned"
  /\ UNCHANGED <<transport, transient_attempt, rate_limit_attempt,
                 fetch_json_retries, sleep_for, error, seen_transient,
                 seen_429, last_transient_sleep>>
  /\ RequestParked

NextRequest ==
  \/ RequestException
  \/ RequestOk
  \/ RateLimited
  \/ ServerError
  \/ OtherStatus
  \/ WakeUp
  \/ FetchJsonRetry
  \/ FetchJsonNone
  \/ FetchJsonOk

SpecRequest == InitRequest /\ [][NextRequest]_vars

(***************************************************************************)
(* _deduplicate of 1_oax_fetch_studies.py applied to one list of records.  *)
(***************************************************************************)
\* the longest input list
MaxRecords == 3

\* a missing, null or empty doi or id: w.get(...) is falsy
NoValue == ""

\* a title: JSON null or a string, held as its characters
NoTitle == [null |-> TRUE, chars |-> <<>>]
Title(cs) == [null |-> FALSE, chars |-> cs]

\* str.lower on the characters of the model
LowerChar(c) == IF c = "A" THEN "a" ELSE IF c = "B" THEN "b" ELSE c
IsSpace(c) == c = " "
\* \w after lower-casing
IsWord(c) == c \in {"a", "b"}

\* re.sub(r"\s+", " ", t): every run of blanks becomes one blank
RECURSIVE collapse_spaces(_)
collapse_spaces(cs) ==
  IF cs = <<>> THEN <<>>
  ELSE IF IsSpace(Head(cs)) /\ Tail(cs) # <<>> /\ IsSpace(Head(Tail(cs)))
  THEN collapse_spaces(Tail(cs))
  ELSE <<Head(cs)>> \o collapse_spaces(Tail(cs))

\* re.sub(r"[^\w\s]", "", t)
RECURSIVE remove_punctuation(_)
remove_punctuation(cs) ==
  IF cs = <<>> THEN <<>>
  ELSE (IF IsWord(Head(cs)) \/ IsSpace(Head(cs)) THEN <<Head(cs)>> ELSE <<>>)
       \o remove_punctuation(Tail(cs))

\* str.strip
RECURSIVE lstrip(_)
lstrip(cs) ==
  IF cs # <<>> /\ IsSpace(Head(cs)) THEN lstrip(Tail(cs)) ELSE cs

RECURSIVE rstrip(_)
rstrip(cs) ==
  IF cs # <<>> /\ IsSpace(cs[Len(cs)]) THEN rstrip(SubSeq(cs, 1, Len(cs) - 1)) ELSE cs

\* lines 95-101
normalize_title(title) ==
  IF title.null \/ title.chars = <<>> THEN <<>>
  ELSE LET t == [k \in DOMAIN title.chars |-> LowerChar(title.chars[k])]
       IN rstrip(lstrip(remove_punctuation(collapse_spaces(t))))

Record(d, i, t) == [doi |-> d, id |-> i, title |-> t]

\* the titles of the model: "A  b", "a b!", "a - b", "!" and null
Titles ==
  {NoTitle,
   Title(<<"A", " ", " ", "b">>),
   Title(<<"a", " ", "b", "!">>),
   Title(<<"a", " ", "-", " ", "b">>),
   Title(<<"!">>)}

\* the records of the model: those with a doi or an id carry one of two
\* titles, those with neither carry any title
Records ==
  {Record(d, i, t) : d \in {NoValue, "d1", "d2"}, i \in {NoValue, "i1", "i2"},
                     t \in {NoTitle, Title(<<"A", " ", " ", "b">>)}}
  \cup {Record(NoValue, NoValue, t) : t \in Titles}

\* lines 104-108
DedupLocals0 ==
  [seen_doi |-> {}, seen_id |-> {}, seen_title |-> {}, out |-> <<>>,
   filtered_doi |-> 0, filtered_id |-> 0, filtered_title |-> 0]

\* a test that compares the title of every record, with or without doi and id
filter_reason_any_title(w, st) ==
  IF w.doi # NoValue /\ w.doi \in st.seen_doi THEN "doi"
  ELSE IF w.id # NoValue /\ w.id \in st.seen_id THEN "id"
  ELSE IF normalize_title(w.title) # <<>>
          /\ normalize_title(w.title) \in st.seen_title
  THEN "title"
  ELSE "keep"

\* lines 114-122: why record w is filtered, or "keep"
filter_reason(w, st) ==
  IF w.doi # NoValue /\ w.doi \in st.seen_doi THEN "doi"
  ELSE IF w.id # NoValue /\ w.id \in st.seen_id THEN "id"
  ELSE IF w.doi = NoValue /\ w.id = NoValue
          /\ normalize_title(w.title) # <<>>
          /\ normalize_title(w.title) \in st.seen_title
  THEN "title"
  ELSE "keep"

\* lines 123-126: the record at position k is kept
keep(w, k, st) ==
  [st EXCEPT
     !.seen_doi = IF w.doi # NoValue THEN @ \cup {w.doi} ELSE @,
     !.seen_id = IF w.id # NoValue THEN @ \cup {w.id} ELSE @,
     !.seen_title = IF w.doi = NoValue /\ w.id = NoValue
                       /\ normalize_title(w.title) # <<>>
                    THEN @ \cup {normalize_title(w.title)} ELSE @,
     !.out = Append(@, k)]

\* lines 110-126: the loop from position k on; out holds positions
RECURSIVE dedup_loop(_, _, _)
dedup_loop(recs, k, st) ==
  IF k > Len(recs) THEN st
  ELSE LET why == filter_reason(recs[k], st)
       IN dedup_loop(recs, k + 1,
            CASE why = "doi" -> [st EXCEPT !.filtered_doi = @ + 1]
              [] why = "id" -> [st EXCEPT !.filtered_id = @ + 1]
              [] why = "title" -> [st EXCEPT !.filtered_title = @ + 1]
              [] OTHER -> keep(recs[k], k, st))

\* lines 103-135
deduplicate(recs) == dedup_loop(recs, 1, DedupLocals0)

InitDedup ==
  /\ pages = <<>>
  /\ last_has_token = FALSE
  /\ FetchState0
  /\ ExecState0
  /\ env = [pages |-> 0, faults |-> 0]
  /\ ScoutState0
  /\ RequestState0
  /\ DoiState0
  /\ records \in SeqsUpTo(Records, MaxRecords)
  /\ kept = <<>>
  /\ stats = [filtered_doi |-> 0, filtered_id |-> 0, filtered_title |-> 0]
  /\ dedup_done = FALSE

ApplyDedup ==
  /\ ~dedup_done
  /\ LET r == deduplicate(records)
     IN /\ kept' = r.out
        /\ stats' = [filtered_doi |-> r.filtered_doi,
                     filtered_id |-> r.filtered_id,
                     filtered_title |-> r.filtered_title]
  /\ dedup_done' = TRUE
  /\ UNCHANGED <<fetchVars, execVars, scoutVars, requestVars, records,
                 doiVars>>

NextDedup == ApplyDedup

SpecDedup == InitDedup /\ [][NextDedup]_vars

(***************************************************************************)
(* 3_oax_fetch_benchmark_studies.py: main, with process kills and          *)
(* restarts.  A DOI stands for its normalized form; a line of the output   *)
(* file is shown by the requested_doi of its record.                       *)
(***************************************************************************)
\* Config["batch_size"] = 50 in the source.
BATCH_SIZE == 2
\* the literal 50 of line 351: a checkpoint every 50 processed DOIs; the
\* ratio to BATCH_SIZE is 1 as in the source.
CHECKPOINT_EVERY == 2
\* number of distinct DOIs in the input table
MaxDois == 4

\* lines 274-288: the normalized DOIs of the input, first occurrences in order
unique_dois == [k \in 1..MaxDois |-> k]

\* lines 201-217: the DOIs of the lines of the output file
load_existing_dois(lines) == Range(lines)

\* lines 220-232 and 235-242: the checkpoint file holds one DOI per line
load_done_ids(ids) == ids
save_done_ids(ids) == ids

\* line 320: the batch that starts at position b of pending
chunk(seq, b) == SubSeq(seq, b, Min(b + BATCH_SIZE - 1, Len(seq)))

\* lines 142-198: the DOIs fetch_batch returns a record for: those of the
\* batch the server knows when an attempt is answered with 200, none when
\* the status is not retryable or the attempts are used up
fetch_batch(dois, answered) ==
  IF answered THEN known \cap Range(dois) ELSE {}

DoiParked == UNCHANGED <<fetchVars, execVars, scoutVars, requestVars, dedupVars>>

InitDoi ==
  /\ pages = <<>>
  /\ last_has_token = FALSE
  /\ FetchState0
  /\ ExecState0
  /\ env = [pages |-> 0, faults |-> 0]
  /\ ScoutState0
  /\ RequestState0
  /\ DedupState0
  /\ known \in SUBSET Range(unique_dois)
  /\ output_jsonl = <<>>
  /\ checkpoint_ids = {}
  /\ doi_pc = "idle"
  /\ DoiLocals0
  /\ doi_runs = 0
  /\ found_written = {}
  /\ processed = <<>>

\* lines 252-320: a new process decides what is pending
DoiStart ==
  /\ DoiParked
  /\ doi_pc \in {"idle", "killed", "done"}
  /\ doi_runs < MaxRuns
  /\ doi_runs' = doi_runs + 1
  /\ LET ckpt == load_done_ids(checkpoint_ids)
         alr == IF ckpt # {} THEN ckpt ELSE load_existing_dois(output_jsonl)
         pend == SelectSeq(unique_dois, LAMBDA d : d \notin alr)
     IN /\ already' = alr
        /\ pending' = pend
        /\ doi_pc' = IF pend = <<>> THEN "done" ELSE "fetch"
  /\ since_last_save' = 0
  /\ batch_start' = 1
  /\ d_pos' = 1
  /\ results' = {}
  /\ out_f' = <<>>
  /\ processed' = <<>>
  /\ UNCHANGED <<known, output_jsonl, checkpoint_ids, found_written>>

\* lines 324-334: fetch_batch for the next batch
DoiFetchBatch ==
  /\ DoiParked
  /\ doi_pc = "fetch"
  /\ \E answered \in BOOLEAN :
       results' = fetch_batch(chunk(pending, batch_start), answered)
  /\ d_pos' = batch_start
  /\ doi_pc' = "loop"
  /\ UNCHANGED <<known, output_jsonl, checkpoint_ids, out_f, already, pending,
                 since_last_save, batch_start, doi_runs, found_written,
                 processed>>

\* lines 336-363: one DOI of the batch; save_done_ids either replaces the
\* checkpoint file or raises, which is logged and ignored
DoiProcess ==
  /\ DoiParked
  /\ doi_pc = "loop"
  /\ LET d == pending[d_pos]
         rec == d \in results
         alr == already \cup {d}
         n == since_last_save + 1
     IN /\ out_f' = IF rec THEN Append(out_f, d) ELSE out_f
        /\ found_written' = IF rec THEN found_written \cup {d} ELSE found_written
        /\ processed' = Append(processed, [doi |-> d, lines |-> IF rec THEN 1 ELSE 0,
                                           found |-> rec])
        /\ already' = alr
        /\ IF n >= CHECKPOINT_EVERY
           THEN /\ since_last_save' = 0
                /\ \E saved \in BOOLEAN :
                     checkpoint_ids' = IF saved THEN save_done_ids(alr)
                                       ELSE checkpoint_ids
           ELSE /\ since_last_save' = n
                /\ UNCHANGED checkpoint_ids
        /\ IF d_pos < Min(batch_start + BATCH_SIZE - 1, Len(pending))
           THEN /\ d_pos' = d_pos + 1
                /\ doi_pc' = "loop"
           ELSE /\ d_pos' = d_pos
                /\ doi_pc' = "flush"
  /\ UNCHANGED <<known, output_jsonl, pending, batch_start, results, doi_runs>>

\* lines 365-366: out_f.flush() at the end of the batch
DoiFlush ==
  /\ DoiParked
  /\ doi_pc = "flush"
  /\ output_jsonl' = output_jsonl \o out_f
  /\ out_f' = <<>>
  /\ IF batch_start + BATCH_SIZE <= Len(pending)
     THEN /\ batch_start' = batch_start + BATCH_SIZE
          /\ doi_pc' = "fetch"
     ELSE /\ batch_start' = batch_start
          /\ doi_pc' = "final"
  /\ UNCHANGED <<known, checkpoint_ids, already, pending, since_last_save,
                 d_pos, results, doi_runs, found_written, processed>>

\* lines 368-386: the final checkpoint, then the output file is closed
DoiFinalCheckpoint ==
  /\ DoiParked
  /\ doi_pc = "final"
  /\ IF since_last_save > 0
     THEN \E saved \in BOOLEAN :
            checkpoint_ids' = IF saved THEN save_done_ids(already)
                              ELSE checkpoint_ids
     ELSE UNCHANGED checkpoint_ids
  /\ doi_pc' = "done"
  /\ UNCHANGED <<known, output_jsonl, out_f, already, pending,
                 since_last_save, batch_start, d_pos, results, doi_runs,
                 found_written, processed>>

\* line 340: the buffer of out_f is written through when it is full, which
\* depends on the sizes of the records
DoiBufferSpills ==
  /\ DoiParked
  /\ doi_pc \in {"loop", "flush"}
  /\ out_f # <<>>
  /\ output_jsonl' = Append(output_jsonl, Head(out_f))
  /\ out_f' = Tail(out_f)
  /\ UNCHANGED <<known, checkpoint_ids, doi_pc, already, pending,
                 since_last_save, batch_start, d_pos, results, doi_runs,
                 found_written, processed>>

\* the process is killed: what out_f still buffers is lost
DoiKill ==
  /\ DoiParked
  /\ doi_pc \in {"fetch", "loop", "flush", "final"}
  /\ doi_pc' = "killed"
  /\ out_f' = <<>>
  /\ already' = {}
  /\ pending' = <<>>
  /\ since_last_save' = 0
  /\ batch_start' = 1
  /\ d_pos' = 1
  /\ results' = {}
  /\ UNCHANGED <<known, output_jsonl, checkpoint_ids, doi_runs,
                 found_written, processed>>

NextDoi ==
  \/ DoiStart
  \/ DoiFetchBatch
  \/ DoiProcess
  \/ DoiFlush
  \/ DoiFinalCheckpoint
  \/ DoiBufferSpills
  \/ DoiKill

SpecDoi == InitDoi /\ [][NextDoi]_vars

(***************************************************************************)
(* Properties of 1_oax_fetch_studies.py, checked under SpecFetch.          *)
(***************************************************************************)
\* the records the shard files held when the current run started
ExistingAtStart ==
  SumSeq([k \in 1..Len(discover_paths(shard_files)) |->
            IF discover_paths(shard_files)[k] \in wrote_this_run THEN 0
            ELSE Len(shard_files[discover_paths(shard_files)[k]].recs)])

\* C1 (idempotent resume): whenever a run of fetch_openalex_full has
\* finished, whatever kills and restarts came before it, the shard files
\* read in index order hold the server's records, each exactly once and in
\* the server's order.
C1_IdempotentResume ==
  pc \in {"returned", "done"} =>
    /\ shards_readable(shard_files)
    /\ ShardRecords = AllRecords
    /\ NoDup(ShardRecords)
    /\ pulled = Len(AllRecords)

\* a run that resumed from the checkpoint cursor after a kill, wrote further
\* shards and finished
C1_Witness ==
  /\ pc = "returned"
  /\ resume_mode = "cursor"
  /\ wrote_this_run # {}
  /\ DOMAIN shard_files \ wrote_this_run # {}

\* C2 (reconciliation): a start that finds shard files resumes from the
\* checkpoint cursor with nothing to skip exactly when the checkpoint is
\* readable, its saved_count equals the records counted in the shard files
\* and it holds a cursor; otherwise it starts from "*" and discards as many
\* leading records as the shard files hold before it buffers anything.
C2_StartStep ==
  (runs' = runs + 1 /\ DOMAIN shard_files # {} /\ pc' = "fetch") =>
    IF /\ checkpoint_file.state = "ok"
       /\ checkpoint_file.saved_count = count_records_in_shards(shard_files)
       /\ checkpoint_file.next_cursor # NoCursor
    THEN /\ cursor' = checkpoint_file.next_cursor
         /\ remaining_to_skip' = 0
    ELSE /\ cursor' = Star
         /\ remaining_to_skip' = count_records_in_shards(shard_files)

C2_SkipFirst ==
  /\ remaining_to_skip > 0 => buffer = <<>> /\ wrote_this_run = {}
  /\ (resume_mode = "replay" /\ (buffer # <<>> \/ wrote_this_run # {}))
       => skipped = ExistingAtStart
  /\ resume_mode = "cursor" => skipped = 0

C2_Reconcile == [][C2_StartStep]_vars /\ []C2_SkipFirst

\* a replaying run that ignored a readable but stale checkpoint, discarded
\* the records already on disk and then buffered the next ones
C2_Witness ==
  /\ resume_mode = "replay"
  /\ checkpoint_file.state = "ok"
  /\ skipped > 0
  /\ skipped = ExistingAtStart
  /\ buffer # <<>>

\* C5 (atomic checkpoint save): a kill during _save_checkpoint leaves the
\* checkpoint file holding the complete previous checkpoint or the complete
\* new one.
C5_AtomicSave ==
  [][(pc = "checkpoint" /\ pc' = "killed") =>
       \/ checkpoint_file' = checkpoint_file
       \/ checkpoint_file' = save_checkpoint(next_cursor, pulled, shard_idx)]_vars

\* C6 as stated: the checkpoint is cleared only once the merged,
\* deduplicated output of the run has been written.
C6_ClearAfterMerge == clears > 0 => merged_this_run

\* C6 (amended): a run clears the checkpoint exactly once, when the fetch
\* loop has ended normally and the final shard has been flushed, which is
\* before the merged output is written; a run that raised never clears it.
C6_ClearOnReturn ==
  /\ clears <= 1
  /\ pc \in {"fetch", "shard", "checkpoint", "final", "clear", "raised"} => clears = 0
  /\ pc \in {"returned", "done"} =>
        clears = 1 /\ ShardRecords = AllRecords
  /\ pc = "returned" => ~merged_this_run /\ checkpoint_file.state = "absent"
  /\ merged_this_run => clears = 1

\* the checkpoint of an interrupted earlier run has been cleared by the run
\* that finished, and <prefix>.json is not written yet
C6_Witness ==
  /\ pc = "returned"
  /\ clears = 1
  /\ runs >= 2
  /\ resume_mode = "cursor"
  /\ ~merged_this_run

\* C7 as stated: no shard file holds more than SHARD_SIZE records.
C7_AtMostShardSize ==
  \A i \in DOMAIN shard_files : Len(shard_files[i].recs) <= SHARD_SIZE

\* C7 (amended): shards are cut at page boundaries, so a shard file holds
\* at most SHARD_SIZE - 1 records plus one page, that is at most
\* SHARD_SIZE + PER_PAGE - 1 records.
C7_AtMostShardPlusPage ==
  \A i \in DOMAIN shard_files :
    Len(shard_files[i].recs) <= SHARD_SIZE + PER_PAGE - 1

\* a short page followed by full pages gives a shard above SHARD_SIZE
C7_Witness ==
  \E i \in DOMAIN shard_files :
    Len(shard_files[i].recs) = SHARD_SIZE + PER_PAGE - 1

\* the records of the shard files named in shard_paths, in that order
RecordsInPaths == merge_shards(shard_files, shard_paths)

\* C19 (nothing stays only in memory): while fetch_openalex_full walks,
\* pulled is the number of records in the shard files of shard_paths plus
\* the number in the buffer; once the final flush is done and when the
\* function has returned, pulled is the number of records in the shard
\* files of the returned shard_paths, every one of these files is complete,
\* and whatever the buffer still holds is the content of the last shard.
C19_NothingOnlyInMemory ==
  /\ pc \in {"fetch", "shard", "checkpoint", "final"} =>
       pulled = Len(RecordsInPaths) + Len(buffer)
  /\ pc \in {"clear", "returned", "done"} =>
       /\ pulled = Len(RecordsInPaths)
       /\ \A k \in DOMAIN shard_paths : shard_files[shard_paths[k]].ok
       /\ buffer # <<>> =>
            /\ shard_paths # <<>>
            /\ shard_files[shard_paths[Len(shard_paths)]].recs = buffer

\* a walk that returned after full shards and a final under-full one
C19_Witness ==
  /\ pc = "returned"
  /\ Len(shard_paths) >= 2
  /\ buffer # <<>>
  /\ Len(buffer) < SHARD_SIZE
  /\ shard_files[shard_paths[Len(shard_paths)]].recs = buffer

\* C20 (abort flushes): when the operator aborts a run, the records that
\* were buffered in memory are in a shard file afterwards and the
\* checkpoint file holds a readable checkpoint that counts them.
C20_AbortFlushes ==
  [][(pc \in Running /\ pc' = "interrupted" /\ buffer # <<>>) =>
       /\ \A r \in Range(buffer) :
            \E i \in DOMAIN shard_files' :
              shard_files'[i].ok /\ r \in Range(shard_files'[i].recs)
       /\ pc \in {"fetch", "shard", "checkpoint"} =>
            /\ checkpoint_file'.state = "ok"
            /\ checkpoint_file'.saved_count = pulled]_vars

(***************************************************************************)
(* Properties of excute_oax_queries.py.                                    *)
(***************************************************************************)
\* HTTP requests in flight: aggregate requests and page requests
InFlight ==
  Cardinality({q \in Queries : qpc[q] = "scout" /\ scout[q].st = "inflight"})
  + Cardinality({w \in Queries \X Slots : wst[w[1]][w[2]] = "inflight"})

\* C3 (global request budget): at every moment at most
\* MAX_CONCURRENT_REQUESTS HTTP requests are in flight, the aggregate
\* requests of get_year_shards included.
C3_RequestBudget == InFlight <= MAX_CONCURRENT_REQUESTS

\* C4 (blocking send): a full queue never makes a fetch_shard_worker fail.
C4_FullQueueNeverFails ==
  \A q \in Queries, i \in Slots : wst[q][i] # "raised"

\* a facet key with a value that is not "unknown" in any letter case
NamesYear(k) ==
  /\ ~k.null
  /\ k.text # ""
  /\ k.text \notin {"unknown", "Unknown", "UNKNOWN"}

YearPositions(groups) == {j \in DOMAIN groups : NamesYear(groups[j])}

\* the position of the n-th group that names a year
NthYear(groups, n) ==
  CHOOSE j \in YearPositions(groups) :
    Cardinality({m \in YearPositions(groups) : m <= j}) = n

\* C8 (sharding threshold): below SHARDING_THRESHOLD get_year_shards returns
\* the single unfiltered partition; at or above it, it returns one partition
\* per facet group whose key names a year, in the order of the groups, and
\* none for a null, empty or unknown key.
C8_ShardingThreshold ==
  (scout_done /\ scout_in.ok) =>
    IF scout_in.count < SHARDING_THRESHOLD
    THEN scout_out = <<NoFilter>>
    ELSE /\ Len(scout_out) = Cardinality(YearPositions(scout_in.groups))
         /\ \A n \in DOMAIN scout_out :
              /\ scout_out[n] = YearFilter(scout_in.groups[NthYear(scout_in.groups, n)].text)
              /\ scout_out[n] # NoFilter
              /\ scout_out[n].year \notin {"", "unknown", "Unknown"}

\* a count at the threshold with an unknown key between two years
C8_Witness ==
  /\ scout_done
  /\ scout_in.ok
  /\ scout_in.count = SHARDING_THRESHOLD
  /\ Len(scout_in.groups) = MaxGroups
  /\ \E j \in DOMAIN scout_in.groups : scout_in.groups[j] = Key("Unknown")
  /\ Len(scout_out) = MaxGroups - 1

\* the ids worker i of query q has pushed, in the order the server gave them
PushedIds(q, i) == [n \in 1..pushed[q][i] |-> <<i, n>>]

\* every id pushed for query q is in its output file exactly once
AllWritten(q) ==
  /\ NoDup(outfile[q])
  /\ Range(outfile[q]) = UNION {Range(PushedIds(q, i)) : i \in Slots}

\* C9 (scout fails open): when the aggregate request has failed,
\* get_year_shards returns the single unfiltered partition, the query is
\* harvested by one worker for it, and the query does not fail for that.
C9_ScoutFailsOpen ==
  \A q \in Queries :
    scout_failed[q] =>
      /\ shards[q] = <<NoFilter>>
      /\ WorkersOf(q) = {1}
      /\ writer[q] # "none"
      /\ qpc[q] = "failed" => wend[q][1] = "queue_full"
      /\ qpc[q] = "done" => AllWritten(q) /\ total_ids[q] = pushed[q][1]

\* the aggregate request ran out of retries and the query was then
\* harvested through the unfiltered partition
C9_Witness ==
  \E q \in Queries :
    /\ scout_failed[q]
    /\ faults = MaxFaults
    /\ qpc[q] = "done"
    /\ wend[q][1] = "exhausted"
    /\ total_ids[q] > 0

\* the step in which worker i of query q gives up its fetch
GivesUp(q, i) == wend[q][i] # "fetch_failed" /\ wend'[q][i] = "fetch_failed"

\* C10 (partition failure is local): the step in which a partition's fetch
\* fails ends that worker alone: no other worker, writer, queue or query
\* changes, nothing is raised, and the records of the siblings are written
\* when the query ends.
C10_Step ==
  \A q \in Queries, i \in Slots :
    GivesUp(q, i) =>
      /\ wst'[q][i] = "done"
      /\ \A r \in Queries, j \in Slots :
           <<r, j>> # <<q, i>> =>
             /\ wst'[r][j] = wst[r][j]
             /\ wcursor'[r][j] = wcursor[r][j]
             /\ pushed'[r][j] = pushed[r][j]
      /\ UNCHANGED <<main_pc, qpc, queue, writer, outfile>>

C10_State ==
  \A q \in Queries :
    /\ \A i \in Slots : wend[q][i] = "fetch_failed" => wst[q][i] = "done"
    /\ qpc[q] = "failed" => \E i \in Slots : wend[q][i] = "queue_full"
    /\ qpc[q] = "done" => AllWritten(q)

C10_FailureIsLocal == [][C10_Step]_vars /\ []C10_State

\* one partition ran out of retries, its sibling walked on to the end of its
\* stream and the sibling's ids are in the output file
C10_Witness ==
  \E q \in Queries :
    /\ qpc[q] = "done"
    /\ wend[q][1] = "fetch_failed"
    /\ faults = MaxFaults
    /\ wend[q][2] = "exhausted"
    /\ pushed[q][2] > 0
    /\ <<2, 1>> \in Range(outfile[q])

\* what process_query holds about its partitions when it ends: the values
\* gather returned for the worker tasks, in the order of the shards
\* (fetch_shard_worker has no return statement, so each is None), and the
\* count of the writer, which line 186 prints next to the query
process_query_outcome(q) ==
  [results |-> [i \in WorkersOf(q) |-> "None"], total_ids |-> total_ids[q]]

\* C11 (failure is recorded): the outcome of a query one of whose partitions
\* ended on a transport failure differs from the outcome of a query whose
\* partitions all ran to exhaustion.
C11_FailureRecorded ==
  \A q, r \in Queries :
    ( /\ qpc[q] = "done"
      /\ qpc[r] = "done"
      /\ \E i \in WorkersOf(q) : wend[q][i] = "fetch_failed"
      /\ \A i \in WorkersOf(r) : wend[r][i] = "exhausted" )
    => process_query_outcome(q) # process_query_outcome(r)

\* the ids of partition i among the items s, in the order of s
PartitionIds(s, i) == SelectSeq(s, LAMBDA x : x[1] = i)

\* every id that has entered the channel of query q, in the order of entry
\* if the writer takes from the head: the file, then the queue
Entered(q) == outfile[q] \o SelectSeq(queue[q], LAMBDA x : x # Sentinel)

C18_State ==
  \A q \in Queries, i \in Slots :
    /\ PartitionIds(Entered(q), i) = PushedIds(q, i)
    /\ PartitionIds(outfile[q], i)
         = [n \in 1..Len(PartitionIds(outfile[q], i)) |-> <<i, n>>]

C18_Step ==
  \A q \in Queries :
    IF Len(queue'[q]) < Len(queue[q])
    THEN \E k \in 0..Len(queue[q]) :
           /\ outfile'[q] = outfile[q] \o SubSeq(queue[q], 1, k)
           /\ Sentinel \notin Range(SubSeq(queue[q], 1, k))
           /\ \/ queue'[q] = SubSeq(queue[q], k + 1, Len(queue[q]))
              \/ /\ k < Len(queue[q])
                 /\ queue[q][k + 1] = Sentinel
                 /\ queue'[q] = SubSeq(queue[q], k + 2, Len(queue[q]))
    ELSE /\ outfile'[q] = outfile[q]
         /\ SubSeq(queue'[q], 1, Len(queue[q])) = queue[q]

\* C18 (order): the ids of one partition reach the output file of the query
\* in the order the server returned them, page after page and in page
\* order; the writer appends the items to the file in the order in which
\* they entered the queue, and every put adds at the tail of the queue.
C18_PartitionOrder == [][C18_Step]_vars /\ []C18_State

\* a partition of more than one page whose ids are all in the file
C18_Witness ==
  \E q \in Queries :
    /\ qpc[q] = "done"
    /\ pushed[q][1] > PER_PAGE
    /\ outfile[q] = PushedIds(q, 1)

(***************************************************************************)
(* Properties of one logical request, checked under SpecRequest.           *)
(***************************************************************************)
\* the last outcome was a 429 / a network error or a 5xx / another status
Was429 == response.kind = "status" /\ response.status = 429
WasTransient ==
  \/ response.kind = "exception"
  \/ response.kind = "status" /\ 500 <= response.status /\ response.status < 600
NonRetryable(s) == s \notin {200, 429} /\ ~(500 <= s /\ s < 600)
WasNonRetryable == response.kind = "status" /\ NonRetryable(response.status)

C12_Step ==
  transport = "requests" =>
    /\ seen_429' # seen_429 => transient_attempt' = transient_attempt
    /\ seen_transient' # seen_transient => rate_limit_attempt' = rate_limit_attempt

C12_State ==
  transport = "requests" =>
    /\ transient_attempt = seen_transient
    /\ rate_limit_attempt = seen_429
    /\ rpc \in {"send", "sleep", "returned"} =>
         seen_transient < MAX_REQUEST_RETRIES /\ seen_429 < MAX_RATE_LIMIT_RETRIES
    /\ rpc = "raised" /\ Was429 => seen_429 = MAX_RATE_LIMIT_RETRIES
    /\ rpc = "raised" /\ WasTransient => seen_transient = MAX_REQUEST_RETRIES

\* C12 (separate budgets): in _request_openalex_with_retries a 429 changes
\* only rate_limit_attempt and a network error or 5xx changes only
\* transient_attempt; whatever the interleaving, the request goes on until
\* the MAX_REQUEST_RETRIES-th transient failure or the
\* MAX_RATE_LIMIT_RETRIES-th 429 and gives up on exactly that one.
C12_SeparateBudgets == [][C12_Step]_vars /\ []C12_State

\* a request that succeeded after one failure less than each budget allows
C12_Witness ==
  /\ transport = "requests"
  /\ rpc = "returned"
  /\ seen_429 = MAX_RATE_LIMIT_RETRIES - 1
  /\ seen_transient = MAX_REQUEST_RETRIES - 1

C13_Step ==
  /\ ( /\ attempts' = attempts + 1
       /\ response'.kind = "status"
       /\ NonRetryable(response'.status) ) =>
       /\ rpc' = IF transport = "requests" THEN "raised" ELSE "none"
       /\ sleep_for' = sleep_for
       /\ transport = "requests" => error' # NoError
  /\ rpc \in {"raised", "none", "returned"} => attempts' = attempts /\ rpc' = rpc

\* C13 (no retry of other statuses): the attempt that is answered with a
\* status other than 200, 429 and 5xx ends the request in that very step,
\* _request_openalex_with_retries by raising and fetch_json by returning
\* None; no delay is computed, nothing sleeps, and no attempt follows.
C13_FailsAtOnce == [][C13_Step]_vars

\* a 404 that ended a request which had already been retried after a 429
\* and after a transient failure
C13_Witness ==
  /\ transport = "requests"
  /\ rpc = "raised"
  /\ response = Status(404, NoHeader)
  /\ seen_429 > 0
  /\ seen_transient > 0

\* C14 (typed errors): the type of the error _request_openalex_with_retries
\* raises tells the exhausted 429 budget, the exhausted transient budget and
\* a non-retryable status apart.
C14_TypedErrors ==
  (transport = "requests" /\ rpc = "raised") =>
    /\ Was429 =>
         error.type \notin {exception_error.type}
                           \cup {final_error(s).type : s \in HttpStatuses \ {200, 429}}
    /\ WasTransient =>
         error.type \notin {rate_limit_error.type}
                           \cup {final_error(s).type : s \in {t \in HttpStatuses : NonRetryable(t)}}
    /\ WasNonRetryable =>
         error.type \notin {rate_limit_error.type, exception_error.type}
                           \cup {final_error(s).type : s \in {t \in HttpStatuses : 500 <= t /\ t < 600}}

\* C15 (Retry-After): while _request_openalex_with_retries sleeps after a 429
\* whose Retry-After header is a number of seconds, the delay is at least
\* that number; with any other header the delay is the exponential schedule
\* plus jitter.
C15_HonoursRetryAfter ==
  (transport = "requests" /\ rpc = "sleep" /\ Was429) =>
    IF response.retry_after.kind = "seconds"
    THEN sleep_for >= Seconds(response.retry_after.seconds)
    ELSE sleep_for - Seconds(rate_limit_backoff(rate_limit_attempt)) \in Jitter

C16_Step ==
  ( /\ transport = "requests"
    /\ transient_attempt' = transient_attempt + 1
    /\ rpc' = "sleep" ) =>
    /\ Seconds(BASE_BACKOFF_SECONDS) <= sleep_for'
    /\ sleep_for' < Seconds(MAX_BACKOFF_SECONDS + 1)
    /\ (last_transient_sleep # -1 /\ last_transient_sleep < Seconds(MAX_BACKOFF_SECONDS))
         => sleep_for' >= last_transient_sleep

Kept == Range(kept)
KeyLess(w) == w.doi = NoValue /\ w.id = NoValue
SameDoi(v, w) == v.doi # NoValue /\ v.doi = w.doi
SameId(v, w) == v.id # NoValue /\ v.id = w.id
SameTitle(v, w) ==
  KeyLess(v) /\ KeyLess(w) /\ normalize_title(v.title) = normalize_title(w.title)

\* C17 as stated: of any two records of the input that share a DOI, that
\* share a record id, or that have neither and have equal normalized
\* titles, the first is kept and the second is not.
C17_ExactlyOneFirst ==
  dedup_done =>
    \A i, j \in DOMAIN records :
      ( /\ i < j
        /\ \/ SameDoi(records[i], records[j])
           \/ SameId(records[i], records[j])
           \/ SameTitle(records[i], records[j]) )
      => i \in Kept /\ j \notin Kept

\* record j repeats the earlier kept record i
Repeats(i, j) ==
  \/ SameDoi(records[i], records[j])
  \/ SameId(records[i], records[j])
  \/ SameTitle(records[i], records[j]) /\ normalize_title(records[j].title) # <<>>

\* C17 (amended): _deduplicate keeps, in input order, every record that
\* repeats no earlier kept record, where a record repeats another when they
\* share a non-empty DOI, share a non-empty id, or have neither and share a
\* non-empty normalized title. So no two kept records repeat each other, a
\* record is dropped only for an earlier kept record, and when two records
\* that repeat each other are the whole input exactly the first is kept.
C17_FirstWins ==
  dedup_done =>
    /\ \A m, n \in DOMAIN kept : m < n => kept[m] < kept[n]
    /\ Kept \subseteq DOMAIN records
    /\ \A i, j \in Kept : i < j => ~Repeats(i, j)
    /\ \A j \in DOMAIN records \ Kept : \E i \in Kept : i < j /\ Repeats(i, j)
    /\ (Len(records) = 2 /\ Repeats(1, 2)) => kept = <<1>>
    /\ \A i, j \in DOMAIN records :
         ( /\ i < j
           /\ records[i] = Record(NoValue, NoValue, Title(<<"A", " ", " ", "b">>))
           /\ records[j] = Record(NoValue, NoValue, Title(<<"a", " ", "b", "!">>)) )
         => j \notin Kept
    /\ stats.filtered_doi + stats.filtered_id + stats.filtered_title
         = Len(records) - Len(kept)

\* two records share an id and have different DOIs; the first was dropped
\* for the DOI of a still earlier record, so the second is the one kept
C17_Witness ==
  /\ dedup_done
  /\ \E i, j \in DOMAIN records :
       /\ i < j
       /\ SameId(records[i], records[j])
       /\ records[i].doi # NoValue
       /\ records[j].doi # NoValue
       /\ records[i].doi # records[j].doi
       /\ i \notin Kept
       /\ j \in Kept

(***************************************************************************)
(* The sentinel protocol of process_query and file_writer.                 *)
(***************************************************************************)
\* the ids the workers of query q have pushed, all partitions together
SumPushed(q) == SumSeq([i \in Slots |-> pushed[q][i]])

\* the step in which the None of line 182 enters the queue of query q
SentinelEnters(q) ==
  Sentinel \notin Range(queue[q]) /\ Sentinel \in Range(queue'[q])

C21_Step ==
  \A q \in Queries :
    SentinelEnters(q) =>
      /\ \A i \in WorkersOf(q) : wst[q][i] = "done"
      /\ pushed'[q] = pushed[q]

C21_State ==
  \A q \in Queries :
    /\ Sentinel \in Range(queue[q]) =>
         /\ \A i \in WorkersOf(q) : wst[q][i] = "done"
         /\ queue[q][Len(queue[q])] = Sentinel
    /\ writer[q] = "done" =>
         /\ \A i \in WorkersOf(q) : wst[q][i] = "done"
         /\ AllWritten(q)
         /\ queue[q] = <<>>
         /\ Len(outfile[q]) = SumPushed(q)
         /\ count[q] = SumPushed(q)
    /\ total_ids[q] # -1 => total_ids[q] = SumPushed(q)

\* C21 (sentinel protocol): the None that stops the writer enters the queue
\* of a query only when every worker of the query has finished and behind
\* every id they pushed; when file_writer has stopped at it, every pushed
\* id is in the output file exactly once, and the count it returns to
\* process_query is the number of ids pushed.
C21_SentinelProtocol == [][C21_Step]_vars /\ []C21_State

\* a query of two partitions that both pushed ids, whose writer stopped at
\* the sentinel and returned the count of both
C21_Witness ==
  \E q \in Queries :
    /\ qpc[q] = "done"
    /\ pushed[q][1] > 0
    /\ pushed[q][2] > 0
    /\ writer[q] = "done"
    /\ total_ids[q] = pushed[q][1] + pushed[q][2]

(***************************************************************************)
(* Properties of 3_oax_fetch_benchmark_studies.py, checked under SpecDoi.  *)
(***************************************************************************)
\* C22 (one line per DOI): for every DOI the main loop has handled, the
\* loop appended exactly one line to the output file, the record when
\* fetch_batch found it and a placeholder otherwise.
C22_OneLinePerDoi ==
  \A k \in DOMAIN processed : processed[k].lines = 1

\* C30 (checkpoint after flush): a DOI whose record was found is in the
\* checkpoint file only when its line is in the output file on disk, and
\* a run that has ended, after whatever kills and restarts, leaves no
\* found record out of the output file.
C30_CheckpointAfterFlush ==
  /\ \A d \in checkpoint_ids \cap found_written : d \in Range(output_jsonl)
  /\ doi_pc = "done" => found_written \subseteq Range(output_jsonl)

(***************************************************************************)
(* Further properties of 1_oax_fetch_studies.py, checked under SpecFetch.  *)
(***************************************************************************)
C23_Step ==
  shard_files' # shard_files =>
    /\ \A i \in DOMAIN shard_files :
         i \in DOMAIN shard_files' /\ shard_files'[i] = shard_files[i]
    /\ DOMAIN shard_files' = DOMAIN shard_files \cup {shard_idx}
    /\ \A i \in DOMAIN shard_files : shard_idx > i

\* C23 (a shard is written once): every write to a shard file, complete or
\* cut short by a kill, in a first run or in a resumed one, creates the
\* file of an index above every index on disk and leaves every existing
\* shard file as it is.
C23_ShardWrittenOnce == [][C23_Step]_vars

\* a resumed run has added shards above the ones it found
C23_Witness ==
  /\ runs >= 2
  /\ wrote_this_run # {}
  /\ DOMAIN shard_files \ wrote_this_run # {}
  /\ \A j \in wrote_this_run, i \in DOMAIN shard_files \ wrote_this_run : j > i
  /\ \A i \in DOMAIN shard_files : shard_files[i].ok

(***************************************************************************)
(* Further properties of _request_openalex_with_retries, checked under     *)
(* SpecRequest.                                                            *)
(***************************************************************************)
\* C24 (transient retries): a request whose attempts all failed with a
\* network error or a 5xx, the first one included, is given up only when
\* MAX_REQUEST_RETRIES attempts after the first one have failed; a request
\* that returns hands back a 200.
C24_RetryBudget ==
  transport = "requests" =>
    /\ (rpc = "raised" /\ WasTransient /\ seen_429 = 0) =>
         attempts - 1 >= MAX_REQUEST_RETRIES
    /\ rpc = "returned" => response = Status(200, NoHeader)

\* the most session.get calls one request can make
MaxAttempts == MAX_REQUEST_RETRIES + MAX_RATE_LIMIT_RETRIES - 1

C28_Step ==
  transport = "requests" =>
    /\ rpc = "send" => attempts' = attempts + 1
    /\ rpc = "sleep" => rpc' = "send" /\ attempts' = attempts
    /\ rpc \in {"returned", "raised"} => rpc' = rpc /\ attempts' = attempts

C28_State ==
  transport = "requests" =>
    /\ attempts <= MaxAttempts
    /\ rpc \in {"send", "sleep"} => attempts < MaxAttempts
    /\ rpc \in {"send", "sleep", "returned", "raised"}
    /\ rpc = "returned" => response = Status(200, NoHeader) /\ error = NoError
    /\ rpc = "raised" =>
         /\ error.type = "RuntimeError"
         /\ response # Status(200, NoHeader)

LastRequest ==
  IF last_has_token \/ pages = <<>> THEN Len(pages) ELSE Len(pages) - 1

\* the step in which the response to the request with `cursor` is handled
PageArrives == pc = "fetch" /\ pc' \in {"fetch", "shard", "final"}

C25_Step ==
  /\ runs' = runs + 1 =>
       cursor' \in {Star, checkpoint_file.next_cursor} /\ cursor' # NoCursor
  /\ PageArrives =>
       LET data == Respond(cursor)
           sk == skipped' - skipped
       IN IF data.results = <<>>
          THEN pc' = "final" /\ buffer' = buffer /\ pulled' = pulled
          ELSE /\ buffer' = buffer \o DropFirst(data.results, sk)
               /\ pulled' = pulled + Len(data.results) - sk
               /\ IF data.next_cursor = NoCursor
                  THEN \/ pc' = "final" /\ cursor' = NoCursor
                       \/ pc' = "shard" /\ next_cursor' = NoCursor
                  ELSE \/ pc' = "fetch" /\ cursor' = data.next_cursor
                       \/ /\ pc' = "shard"
                          /\ next_cursor' = data.next_cursor
                          /\ cursor' = cursor
  /\ (pc = "shard" /\ pc' = "checkpoint") =>
       next_cursor' = next_cursor /\ cursor' = cursor
  /\ (pc = "checkpoint" /\ pc' \in {"fetch", "final"}) =>
       /\ cursor' = next_cursor
       /\ pc' = "final" <=> next_cursor = NoCursor

C25_State ==
  /\ pc = "fetch" => cursor \in 0..LastRequest
  /\ pc \in {"shard", "checkpoint"} => cursor \in 0..LastRequest
  /\ (pc = "final" /\ pages # <<>>) =>
       Range(pages[Len(pages)]) \subseteq Range(ShardRecords) \cup Range(buffer)

Saves == pc = "checkpoint" /\ pc' = "fetch"

C26_Step ==
  Saves =>
    /\ buffer = <<>>
    /\ shard_files' = shard_files
    /\ shards_readable(shard_files)
    /\ checkpoint_file'.state = "ok"
    /\ checkpoint_file'.saved_count = Len(ShardRecords)
    /\ checkpoint_file'.saved_count = count_records_in_shards(shard_files)
    /\ checkpoint_file'.next_shard_idx = MaxOf(DOMAIN shard_files) + 1
    /\ checkpoint_file'.next_cursor # NoCursor
    /\ checkpoint_file'.next_cursor \in 1..Len(pages)
    /\ ShardRecords = Flatten(SubSeq(pages, 1, checkpoint_file'.next_cursor))
    /\ Respond(checkpoint_file'.next_cursor - 1).next_cursor
         = checkpoint_file'.next_cursor

\* C26 (checkpoint content): when fetch_openalex_full has saved a
\* checkpoint, the buffer is empty, saved_count is the number of records in
\* the shard files on disk, next_shard_idx is the highest shard index on
\* disk plus one, and next_cursor is the continuation token the server
\* returned with the last page whose records are in the shard files.
C26_CheckpointContent == [][C26_Step]_vars

\* a run that replayed the shards of a killed run has saved a checkpoint
\* after a shard of its own
C26_Witness ==
  /\ pc = "fetch"
  /\ runs >= 2
  /\ resume_mode = "replay"
  /\ wrote_this_run # {}
  /\ DOMAIN shard_files \ wrote_this_run # {}
  /\ checkpoint_file = save_checkpoint(cursor, pulled, shard_idx)
  /\ buffer = <<>>

(***************************************************************************)
(* A further property of get_year_shards, checked under SpecScout.         *)
(***************************************************************************)
\* C29 (at least one partition): whatever the aggregate response,
\* get_year_shards returns a list with at least one partition.
C29_NeverEmpty == scout_done => Len(scout_out) >= 1

(***************************************************************************)
(* Termination of main of excute_oax_queries.py, checked under             *)
(* SpecExecFair.                                                           *)
(***************************************************************************)
\* main has returned: every query ran to its end, its workers have left the
\* semaphore and its writer has stopped
AllDone ==
  /\ main_pc = "done"
  /\ semaphore = MAX_CONCURRENT_REQUESTS
  /\ \A q \in Queries :
       /\ qpc[q] = "done"
       /\ writer[q] = "done"
       /\ queue[q] = <<>>
       /\ \A i \in WorkersOf(q) : wst[q][i] = "done"

\* the permits taken from global_semaphore are those of the workers inside
\* `async with semaphore`
PermitsAccounted ==
  main_pc # "raised" =>
    semaphore = MAX_CONCURRENT_REQUESTS
                - Cardinality({w \in Queries \X Slots :
                                 wst[w[1]][w[2]] \in {"inflight", "sleep"}})

\* main has raised the asyncio.QueueFull of a worker and the event loop has
\* cancelled what was pending
FailedOnFullQueue ==
  /\ main_pc = "raised"
  /\ \E q \in Queries, i \in Slots : wend[q][i] = "queue_full"
  /\ \A q \in Queries :
       /\ qpc[q] \in {"done", "failed", "cancelled"}
       /\ writer[q] \in {"none", "done", "cancelled"}
       /\ \A i \in WorkersOf(q) : wst[q][i] \in {"done", "raised", "cancelled"}

====
